---- MODULE Spec2Model ----
(***************************************************************************)
(* A model of PyTaiko-Mini's chart parser (libs/tja2.py,                   *)
(* TJAParser2.notes_to_position), of the chart reset of a playthrough      *)
(* (scenes/game2.py, Player2.reset_chart) and of the judgment of a hit     *)
(* against the head of a lane queue.                                       *)
(*                                                                         *)
(* Times (hit_ms, the cursor current_ms) are Python floats in the source.  *)
(* They are modelled as exact rationals [n, d] in lowest terms, d > 0:     *)
(* the rounding of IEEE doubles is not modelled.                           *)
(***************************************************************************)
EXTENDS Integers, Sequences, FiniteSets, TLC

(***************************************************************************)
(* Bounds of the model.                                                    *)
(***************************************************************************)
\* the most bars a chart has
MaxBars == 2
\* the most note cells (characters of note-cell strings) a chart with directives has
MaxCells == 2
\* the most note cells a chart without directives has
MaxPlainCells == 3
\* the most directives a chart has
MaxDirs == 1
\* the most entries the declared balloon list has
MaxBalloons == 2
\* the most calls of notes_to_position on one parser
MaxCalls == 2
\* the most notes the chart of a judged playthrough has
MaxQueued == 2
\* the most frames a playthrough runs
MaxFrames == 8
\* the most frames an AI battle runs
MaxBattleFrames == 16
\* the most restarts of an AI battle
MaxRestarts == 1
\* frames of the draw managers until the time stops growing
MaxDrawFrames == 10
\* note cells of a chart given to the draw managers
MaxDrawCells == 3
\* update() calls of a screen between two on_screen_end() calls, and the
\* on_screen_end() calls of a screen
MaxUpdates == 3
MaxCycles == 2
\* the directives of one bar of a chart that names its scroll family
MaxFamilyDirs == 2
\* the note cells of a chart whose lane queues are compared
MaxSyncCells == 2
\* the iterations of the loop of one _adjust_timing call that are followed
MaxIters == 4
\* the good and the ok count of a player when update_values is called
MaxCount == 3

(***************************************************************************)
(* Rational arithmetic for float values.                                   *)
(***************************************************************************)
Abs(i) == IF i < 0 THEN -i ELSE i

RECURSIVE GCD(_, _)
GCD(a, b) ==
    CHOOSE g \in {IF y = 0 THEN x ELSE GCD(y, x % y) : x \in {a}, y \in {b}} : TRUE

RNormOf(n, d) ==
    LET s == IF d < 0 THEN -1 ELSE 1
        g == GCD(Abs(n), Abs(d))
    IN  [n |-> (s * n) \div g, d |-> (s * d) \div g]

\* the fraction n/d in lowest terms, d > 0 (n and d are evaluated once)
RNorm(n, d) == CHOOSE r \in {RNormOf(a, b) : a \in {n}, b \in {d}} : TRUE

RInt(i) == [n |-> i, d |-> 1]
RAdd(x, y) == RNorm(x.n * y.d + y.n * x.d, x.d * y.d)
RSub(x, y) == RNorm(x.n * y.d - y.n * x.d, x.d * y.d)
RMul(x, y) == RNorm(x.n * y.n, x.d * y.d)
RDiv(x, y) == RNorm(x.n * y.d, x.d * y.n)
RLe(x, y) == x.n * y.d <= y.n * x.d
RLt(x, y) == x.n * y.d < y.n * x.d
RAbs(x) == [n |-> Abs(x.n), d |-> x.d]

(***************************************************************************)
(* libs/tja2.py: NoteType, ScrollType.                                     *)
(***************************************************************************)
NoteType ==
    [NONE |-> 0, DON |-> 1, KAT |-> 2, DON_L |-> 3, KAT_L |-> 4, ROLL_HEAD |-> 5,
     ROLL_HEAD_L |-> 6, BALLOON_HEAD |-> 7, TAIL |-> 8, KUSUDAMA |-> 9]

ScrollType == [NMSCROLL |-> 0, BMSCROLL |-> 1, HBSCROLL |-> 2]

\* str.isdigit() and int() on one character of a note-cell string
Digits == {"0", "1", "2", "3", "4", "5", "6", "7", "8", "9"}
isdigit(c) == c \in Digits
int(c) ==
    CASE c = "0" -> 0 [] c = "1" -> 1 [] c = "2" -> 2 [] c = "3" -> 3 [] c = "4" -> 4
      [] c = "5" -> 5 [] c = "6" -> 6 [] c = "7" -> 7 [] c = "8" -> 8 [] c = "9" -> 9

(***************************************************************************)
(* The charts the model parses.  A bar is a sequence of parts; a part is a *)
(* note-cell string (a sequence of characters) or a directive.             *)
(***************************************************************************)
\* the characters of note-cell strings: "0" (silent), don, kat, roll head,
\* balloon head, tail, kusudama.  "3", "4", "6" take the branches of "1", "2", "5".
CellChars == {"0", "1", "2", "5", "7", "8", "9"}

Cells(s) == [k |-> "cells", s |-> s]
Measure(a, b) == [k |-> "#MEASURE", a |-> a, b |-> b]
BpmChange(v) == [k |-> "#BPMCHANGE", v |-> v]
Scroll(x) == [k |-> "#SCROLL", i |-> FALSE, x |-> x, y |-> 0]
ScrollComplex(x, y) == [k |-> "#SCROLL", i |-> TRUE, x |-> x, y |-> y]

Directives == {Measure(3, 4), BpmChange(240), BpmChange(-120), Scroll(2)}

\* '#' in part
IsDirective(part) == part.k # "cells"

\* len(part) of a part that is counted in bar_length
PartLen(part) == IF IsDirective(part) THEN 0 ELSE Len(part.s)

\* sum(len(part) for part in bar if '#' not in part)
RECURSIVE SumLen(_)
SumLen(bar) == IF bar = <<>> THEN 0 ELSE PartLen(Head(bar)) + SumLen(Tail(bar))

(***************************************************************************)
(* State.                                                                  *)
(***************************************************************************)
VARIABLES
    metadata,     \* TJAParser.metadata: bpm and course_data[diff].balloon
    notes,        \* the bars data_to_notes(diff) returns, as far as parsed
    current_ms,   \* TJAParser.current_ms, the cursor
    frame,        \* the locals of the running notes_to_position call
    pc,           \* "idle", "parsing", "returned" or "raised"
    bar_no,       \* the bars of notes the running call has parsed
    results,      \* the NoteLists returned so far, one per completed call
    player,       \* the playthrough: lane queues, counters, timing windows
    last,         \* the last hit judged: lane, time, head compared, result
    ms_from_start, \* the song time of the current frame, in ms
    screen        \* AIBattleGameScreen: its players and end-of-song state

vars == <<metadata, notes, current_ms, frame, pc, bar_no, results, player, last, ms_from_start, screen>>

(***************************************************************************)
(* libs/tja.py (not part of the sources at hand): get_ms_per_measure, as   *)
(* the specification gives it: ms_per_measure = 240000 * (a/b) / bpm.      *)
(***************************************************************************)
get_ms_per_measure(bpm, time_signature) ==
    RDiv(RMul(RInt(240000), time_signature), bpm)

(***************************************************************************)
(* bisect.insort(a, x, key=lambda x: x.hit_ms): binary search for the      *)
(* rightmost insertion point, then insert.                                 *)
(***************************************************************************)
RECURSIVE bisect_right(_, _, _, _)
bisect_right(a, x, lo, hi) ==
    IF lo < hi
    THEN LET mid == (lo + hi) \div 2
         IN  IF RLt(x, a[mid + 1].hit_ms)
             THEN bisect_right(a, x, lo, mid)
             ELSE bisect_right(a, x, mid + 1, hi)
    ELSE lo

\* a wrong insort: the object is put in front, no search made
insort_front(a, obj) == <<obj>> \o a

insort(a, obj) ==
    LET pos == bisect_right(a, obj.hit_ms, 0, Len(a))
    IN  SubSeq(a, 1, pos) \o <<obj>> \o SubSeq(a, pos + 1, Len(a))

\* the scroll type of the call: set once (line 159) and never reassigned
scroll_type == ScrollType.NMSCROLL

\* `balloon is None` (line 247): balloon is the copy of a list
balloon_is_None(balloon) == FALSE

(***************************************************************************)
(* notes_to_position, lines 140-161: the locals before the first bar.      *)
(***************************************************************************)
\* Besides the locals, the frame records the exception the call raised, if any
\* (raised), and whether the timeline was sorted after every insertion so far
\* (timeline_ok).
InitFrame(cur_ms) ==
    [balloon |-> metadata.balloon,
     count |-> 0,
     index |-> 0,
     time_signature |-> RInt(1),
     bpm |-> RInt(metadata.bpm),
     scroll_x_modifier |-> RInt(1),
     scroll_y_modifier |-> RInt(0),
     barline_display |-> TRUE,
     play_notes |-> <<>>,
     draw_notes |-> <<>>,
     bars |-> <<>>,
     timeline |-> <<[hit_ms |-> cur_ms, bpm |-> RInt(metadata.bpm)]>>,
     prev_note |-> <<>>,
     bpmchange_last_bpm |-> RInt(metadata.bpm),
     barline_added |-> FALSE,
     raised |-> "",
     timeline_ok |-> TRUE]

\* a sequence of objects is non-decreasing in hit_ms
SortedByHitMs(a) == \A i \in 1..(Len(a) - 1) : RLe(a[i].hit_ms, a[i + 1].hit_ms)

(***************************************************************************)
(* notes_to_position, lines 228-263: one character of a note-cell string.  *)
(***************************************************************************)
NewNote(st, item) ==
    [cls |-> "Note", hit_ms |-> st.current_ms, display |-> TRUE, type |-> int(item),
     index |-> st.index, bpm |-> st.bpm, scroll_x |-> st.scroll_x_modifier,
     scroll_y |-> st.scroll_y_modifier]

\* Drumroll(note), color = 255
NewDrumroll(note) ==
    [cls |-> "Drumroll", hit_ms |-> note.hit_ms, display |-> note.display,
     type |-> note.type, index |-> note.index, bpm |-> note.bpm,
     scroll_x |-> note.scroll_x, scroll_y |-> note.scroll_y, color |-> 255]

\* Balloon(note, is_kusudama), count set by the caller
NewBalloon(note, is_kusudama, count) ==
    [cls |-> "Balloon", hit_ms |-> note.hit_ms, display |-> note.display,
     type |-> note.type, index |-> note.index, bpm |-> note.bpm,
     scroll_x |-> note.scroll_x, scroll_y |-> note.scroll_y, count |-> count,
     popped |-> FALSE, is_kusudama |-> is_kusudama]

\* a wrong count: the declared list is read from its end (pop() for pop(0))
BalloonCount_last(balloon) == IF balloon = <<>> THEN 1 ELSE balloon[Len(balloon)]

\* a wrong count: no default of 1 once the declared list is used up
BalloonCount_zero(balloon) == IF balloon = <<>> THEN 0 ELSE Head(balloon)

\* line 253: note.count = 1 if not balloon else balloon.pop(0)
BalloonCount(balloon) == IF balloon = <<>> THEN 1 ELSE Head(balloon)
BalloonRest(balloon) == IF balloon = <<>> THEN balloon ELSE Tail(balloon)

\* a wrong check: a TAIL cell never raises
TailRaises_never(st) == FALSE

\* lines 255-256: the check made for a TAIL cell
TailRaises(st) == st.prev_note = <<>>

\* a wrong append: the index is not advanced
AppendNote_same_index(st, note, increment) ==
    [st EXCEPT !.current_ms = RAdd(@, increment),
               !.play_notes = Append(@, note),
               !.draw_notes = Append(@, note),
               !.prev_note = <<note>>]

\* a wrong append: only don and kat notes go to play_notes
AppendNote_playable(st, note, increment) ==
    [st EXCEPT !.current_ms = RAdd(@, increment),
               !.play_notes = IF note.type \in 1..4 THEN Append(@, note) ELSE @,
               !.draw_notes = Append(@, note),
               !.index = @ + 1,
               !.prev_note = <<note>>]

\* lines 258-263: the note is appended to both lists
AppendNote(st, note, increment) ==
    [st EXCEPT !.current_ms = RAdd(@, increment),
               !.play_notes = Append(@, note),
               !.draw_notes = Append(@, note),
               !.index = @ + 1,
               !.prev_note = <<note>>]

ParseItem(st, item, increment) ==
    IF st.raised # "" THEN st
    ELSE IF item = "0" \/ ~isdigit(item)
    THEN [st EXCEPT !.current_ms = RAdd(@, increment)]
    ELSE LET note == NewNote(st, item)
         IN  IF item \in {"5", "6"}
             THEN AppendNote(st, NewDrumroll(note), increment)
             ELSE IF item \in {"7", "9"}
             THEN LET st1 == [st EXCEPT !.count = @ + 1]
                  IN  IF balloon_is_None(st1.balloon)
                      THEN [st1 EXCEPT !.raised = "Exception"]
                      ELSE AppendNote(
                               [st1 EXCEPT !.balloon = BalloonRest(@)],
                               NewBalloon(note, item = "9", BalloonCount(st1.balloon)),
                               increment)
             ELSE IF item = "8" /\ TailRaises(st)
             THEN [st EXCEPT !.raised = "ValueError"]
             ELSE AppendNote(st, note, increment)

RECURSIVE ParseItems(_, _, _)
ParseItems(st, s, increment) ==
    IF s = <<>> THEN st
    ELSE ParseItems(ParseItem(st, Head(s), increment), Tail(s), increment)

(***************************************************************************)
(* notes_to_position, lines 167-226: one part of a bar.                    *)
(***************************************************************************)
\* lines 195 and 201: insertion into the timeline
InsertTimeline(st, obj) ==
    LET tl == insort(st.timeline, obj)
    IN  [st EXCEPT !.timeline = tl,
                   !.timeline_ok = @ /\ SortedByHitMs(tl)]

\* a wrong #BPMCHANGE: the event is appended, the running BPM stays
ParseBpmChange_event_only(st, part) ==
    InsertTimeline(st, [hit_ms |-> st.current_ms, bpm |-> RInt(part.v)])

\* lines 185-202
ParseBpmChange(st, part) ==
    LET parsed_bpm == RInt(part.v)
    IN  IF scroll_type = ScrollType.BMSCROLL \/ scroll_type = ScrollType.HBSCROLL
        THEN InsertTimeline(
                 [st EXCEPT !.bpmchange_last_bpm = parsed_bpm],
                 [hit_ms |-> st.current_ms,
                  bpmchange |-> RDiv(parsed_bpm, st.bpmchange_last_bpm)])
        ELSE InsertTimeline(
                 [st EXCEPT !.bpm = parsed_bpm],
                 [hit_ms |-> st.current_ms, bpm |-> parsed_bpm])

\* lines 172-184
ParseScroll(st, part) ==
    IF scroll_type # ScrollType.BMSCROLL
    THEN [st EXCEPT !.scroll_x_modifier = RInt(part.x),
                    !.scroll_y_modifier = IF part.i THEN RInt(part.y) ELSE RInt(0)]
    ELSE st

\* lines 168-171
ParseMeasure(st, part) ==
    IF part.b = 0
    THEN [st EXCEPT !.raised = "ZeroDivisionError"]
    ELSE [st EXCEPT !.time_signature = RDiv(RInt(part.a), RInt(part.b))]

\* a wrong bar line: every bar line of a bar is displayed
BarLine_displayed(st) ==
    [hit_ms |-> st.current_ms, type |-> 0, display |-> st.barline_display,
     bpm |-> st.bpm, scroll_x |-> st.scroll_x_modifier,
     scroll_y |-> st.scroll_y_modifier]

\* lines 207-220: the bar line of a note-cell part
BarLine(st) ==
    [hit_ms |-> st.current_ms, type |-> 0,
     display |-> IF st.barline_added THEN FALSE ELSE st.barline_display,
     bpm |-> st.bpm, scroll_x |-> st.scroll_x_modifier,
     scroll_y |-> st.scroll_y_modifier]

\* a wrong step: the measure is divided by the length of the part, not of the bar
Increment_part_length(s, ms_per_measure, bar_length) ==
    IF Len(s) = 0 THEN RInt(0) ELSE RDiv(ms_per_measure, RInt(Len(s)))

\* lines 222-226: the cursor step per character
Increment(s, ms_per_measure, bar_length) ==
    IF Len(s) = 0 THEN RInt(0) ELSE RDiv(ms_per_measure, RInt(bar_length))

\* a wrong parse of a part: an empty part leaves the cursor where it is
ParseCells_empty_stays(st, s, bar_length) ==
    IF Len(s) > 0 /\ ~isdigit(s[1]) THEN st
    ELSE LET ms_per_measure == get_ms_per_measure(st.bpm, st.time_signature)
             st1 == [st EXCEPT !.bars = Append(@, [hit_ms |-> st.current_ms, type |-> 0,
                                   display |-> ~st.barline_added /\ st.barline_display,
                                   bpm |-> st.bpm, scroll_x |-> st.scroll_x_modifier,
                                   scroll_y |-> st.scroll_y_modifier]),
                               !.barline_added = TRUE]
         IN  ParseItems(st1, s, IF Len(s) = 0 THEN RInt(0)
                                ELSE RDiv(ms_per_measure, RInt(bar_length)))

\* lines 203-263
ParseCells(st, s, bar_length) ==
    IF Len(s) > 0 /\ ~isdigit(s[1]) THEN st
    ELSE LET ms_per_measure == get_ms_per_measure(st.bpm, st.time_signature)
             st1 == [st EXCEPT !.bars = Append(@, BarLine(st)),
                               !.barline_added = TRUE,
                               !.current_ms = IF Len(s) = 0
                                              THEN RAdd(@, ms_per_measure) ELSE @]
         IN  ParseItems(st1, s, Increment(s, ms_per_measure, bar_length))

ParsePart(st, part, bar_length) ==
    IF st.raised # "" THEN st
    ELSE CASE part.k = "#MEASURE" -> ParseMeasure(st, part)
           [] part.k = "#SCROLL" -> ParseScroll(st, part)
           [] part.k = "#BPMCHANGE" -> ParseBpmChange(st, part)
           [] part.k = "cells" -> ParseCells(st, part.s, bar_length)
           [] OTHER -> st   \* lines 203-204: any other part that starts with '#'

RECURSIVE ParseParts(_, _, _)
ParseParts(st, bar, bar_length) ==
    IF bar = <<>> THEN st
    ELSE ParseParts(ParsePart(st, Head(bar), bar_length), Tail(bar), bar_length)

(***************************************************************************)
(* notes_to_position, lines 163-165: one bar.                              *)
(***************************************************************************)
BarLength(bar) == SumLen(bar)

ParseBarOf(st, bar) ==
    ParseParts([st EXCEPT !.barline_added = FALSE], bar, BarLength(bar))

\* lines 163-263: the loop over the bars
RECURSIVE ParseBars(_, _)
ParseBars(st, chart) ==
    IF chart = <<>> \/ st.raised # "" THEN st
    ELSE ParseBars(ParseBarOf(st, Head(chart)), Tail(chart))

\* line 265: the NoteList the call returns
NoteListOf(st) ==
    [play_notes |-> st.play_notes, draw_notes |-> st.draw_notes,
     bars |-> st.bars, timeline |-> st.timeline]

(***************************************************************************)
(* The inputs: charts as libs/tja.py's data_to_notes hands them over, the  *)
(* declared balloon list, the initial BPM and the start delay.  A bar is   *)
(* note-cell strings separated by directives, directives first; a bar      *)
(* without note cells holds its directives and one empty note-cell string. *)
(***************************************************************************)
CellStrings(chars, c) == UNION {[1..n -> chars] : n \in 1..c}

\* sequences of at most d directives
RECURSIVE DirSeqs(_)
DirSeqs(d) ==
    {<<>>} \cup (IF d > 0
                 THEN UNION {{<<dir>> \o r : r \in DirSeqs(d - 1)} : dir \in Directives}
                 ELSE {})

DirsOfBar(bar) == Cardinality({i \in 1..Len(bar) : IsDirective(bar[i])})

\* what follows a note-cell string in a bar: nothing, or directives and a
\* further note-cell string, and so on
RECURSIVE BarRests(_, _, _)
BarRests(chars, c, d) ==
    {<<>>}
    \cup (IF c > 0 /\ d > 0
          THEN UNION {UNION {{ds \o <<Cells(s)>> \o r :
                                r \in BarRests(chars, c - Len(s), d - Len(ds))} :
                             s \in CellStrings(chars, c)} :
                      ds \in DirSeqs(d) \ {<<>>}}
          ELSE {})

\* the bars of at most c cells and d directives that hold note cells
CellBars(chars, c, d) ==
    UNION {UNION {{ds \o <<Cells(s)>> \o r :
                     r \in BarRests(chars, c - Len(s), d - Len(ds))} :
                  s \in CellStrings(chars, c)} :
           ds \in DirSeqs(d)}

BarsWithin(chars, c, d) ==
    CellBars(chars, c, d) \cup {ds \o <<Cells(<<>>)>> : ds \in DirSeqs(d)}

RECURSIVE CellsOf(_)
CellsOf(chart) == IF chart = <<>> THEN 0 ELSE SumLen(Head(chart)) + CellsOf(Tail(chart))

RECURSIVE DirsOf(_)
DirsOf(chart) == IF chart = <<>> THEN 0 ELSE DirsOfBar(Head(chart)) + DirsOf(Tail(chart))

\* the declared balloon lists: distinct counts, so that their order shows
DeclaredCounts == <<3, 2, 4, 5>>
BalloonLists == {SubSeq(DeclaredCounts, 1, n) : n \in 0..MaxBalloons}

InitialBpms == {120}
StartDelays == {0}

\* the note cells of the charts that carry directives: silent, don and kat
TimedChars == {"0", "1", "2"}

(***************************************************************************)
(* Initial state: a parser constructed on a chart (GameScreen2.init_tja),  *)
(* no call of notes_to_position made yet.                                  *)
(***************************************************************************)
InitWith(balloons) ==
    /\ metadata \in [bpm : InitialBpms, balloon : balloons]
    /\ notes = <<>>
    /\ current_ms \in {RInt(s) : s \in StartDelays}
    /\ frame = <<>>
    /\ pc = "idle"
    /\ bar_no = 0
    /\ results = <<>>
    /\ player = <<>>
    /\ last = <<>>
    /\ ms_from_start = RInt(0)
    /\ screen = <<>>

Init == InitWith({<<>>})

InitCells == InitWith(BalloonLists)

WithCursor(fr, cur) == [f \in DOMAIN fr \cup {"current_ms"} |->
                           IF f = "current_ms" THEN cur ELSE fr[f]]
Locals(st) == [f \in DOMAIN st \ {"current_ms"} |-> st[f]]

(***************************************************************************)
(* Player2.reset_chart calls notes_to_position: lines 140-161.             *)
(***************************************************************************)
Call ==
    /\ pc = "idle"
    /\ results = <<>>
    /\ frame' = InitFrame(current_ms)
    /\ pc' = "parsing"
    /\ bar_no' = 0
    /\ UNCHANGED <<metadata, notes, current_ms, results, player, last, ms_from_start, screen>>

\* the effect of one iteration of `for bar in notes` on the state
DoBar(bar) ==
    \E st \in {ParseBarOf(WithCursor(frame, current_ms), bar)} :
        /\ frame' = Locals(st)
        /\ current_ms' = st.current_ms
        /\ pc' = IF st.raised # "" THEN "raised" ELSE "parsing"
        /\ bar_no' = bar_no + 1

\* one iteration of the loop over the bars, on a bar the chart is found to have
ParseNewBar(chars, maxcells, maxdirs) ==
    /\ pc = "parsing"
    /\ results = <<>>
    /\ bar_no = Len(notes)
    /\ Len(notes) < MaxBars
    /\ \E bar \in BarsWithin(chars, maxcells - CellsOf(notes), maxdirs - DirsOf(notes)) :
          /\ notes' = Append(notes, bar)
          /\ DoBar(bar)
    /\ UNCHANGED <<metadata, results, player, last, ms_from_start, screen>>

\* line 265: the loop is over, the NoteList is returned
Return ==
    /\ pc = "parsing"
    /\ bar_no = Len(notes)
    /\ results' = Append(results, NoteListOf(frame))
    /\ pc' = "idle"
    /\ UNCHANGED <<metadata, notes, current_ms, frame, bar_no, player, last, ms_from_start, screen>>

\* Player2.reset_chart once more on the same parser: a whole further call of
\* notes_to_position on the same bars
reset_chart ==
    /\ pc = "idle"
    /\ results # <<>>
    /\ Len(results) < MaxCalls
    /\ \E st \in {ParseBars(WithCursor(InitFrame(current_ms), current_ms), notes)} :
           /\ frame' = Locals(st)
           /\ current_ms' = st.current_ms
           /\ pc' = IF st.raised # "" THEN "raised" ELSE "idle"
           /\ results' = IF st.raised # "" THEN results
                         ELSE Append(results, NoteListOf(st))
    /\ UNCHANGED <<metadata, notes, bar_no, player, last, ms_from_start, screen>>

\* charts of silent, don and kat cells with directives, parsed MaxCalls times
Next ==
    \/ Call
    \/ ParseNewBar(TimedChars, MaxCells, MaxDirs)
    \/ Return
    \/ reset_chart

Spec == Init /\ [][Next]_vars

\* charts of all cell characters without directives, parsed once
NextCells ==
    \/ Call
    \/ ParseNewBar(CellChars, MaxPlainCells, 0)
    \/ Return

SpecCells == InitCells /\ [][NextCells]_vars

(***************************************************************************)
(* scenes/game2.py, Player2.reset_chart, lines 60-65: the queues of a      *)
(* playthrough, filtered out of the NoteList's play_notes.                 *)
(***************************************************************************)
IsDon(note) == note.type \in {NoteType.DON, NoteType.DON_L}
IsKat(note) == note.type \in {NoteType.KAT, NoteType.KAT_L}
IsOther(note) == ~(note.type \in {NoteType.DON, NoteType.DON_L, NoteType.KAT, NoteType.KAT_L})

don_notes_of(nl) == SelectSeq(nl.play_notes, IsDon)
kat_notes_of(nl) == SelectSeq(nl.play_notes, IsKat)
other_notes_of(nl) == SelectSeq(nl.play_notes, IsOther)

(***************************************************************************)
(* The playthrough.  Player and its check_note are in scenes/game.py (not  *)
(* part of the sources at hand); the judgment is the contract              *)
(* judge(lane, hit_time_ms, windows) of the specification's Judgment       *)
(* Engine.  The callers are in scenes/ai_battle/game.py.                   *)
(***************************************************************************)
\* libs/global_data.Difficulty, as test/libs/test_global_data.py pins it
Difficulty == [EASY |-> 0, NORMAL |-> 1, HARD |-> 2, ONI |-> 3, URA |-> 4]

\* Player.TIMING_*: a standard tier and a wider easy tier, in milliseconds
TIMING ==
    [GOOD |-> 25, OK |-> 75, BAD |-> 108,
     GOOD_EASY |-> 42, OK_EASY |-> 108, BAD_EASY |-> 125]

\* AIPlayer.autoplay_manager, lines 278-285: the window set of a difficulty
timing_windows(difficulty) ==
    IF difficulty < Difficulty.NORMAL
    THEN [good |-> TIMING.GOOD_EASY, ok |-> TIMING.OK_EASY, bad |-> TIMING.BAD_EASY]
    ELSE [good |-> TIMING.GOOD, ok |-> TIMING.OK, bad |-> TIMING.BAD]

\* the window sets a playthrough is configured with: the two tiers, and one
\* whose good and ok windows coincide
WindowSets ==
    {timing_windows(d) : d \in {Difficulty.EASY, Difficulty.ONI}}
    \cup {[good |-> 25, ok |-> 25, bad |-> 40]}

Judgment == [GOOD |-> "GOOD", OK |-> "OK", BAD |-> "BAD", NO_OP |-> "NO_OP"]

\* Player.__init__ and reset_chart: the queues of a fresh playthrough
NewPlayer(nl, windows) ==
    [don_notes |-> don_notes_of(nl), kat_notes |-> kat_notes_of(nl),
     good_count |-> 0, ok_count |-> 0, bad_count |-> 0,
     windows |-> windows,
     judged |-> <<>>]      \* the indexes of the notes judged, in order

\* the queue of a lane
LaneQueue(p, lane) == IF lane = "don" THEN p.don_notes ELSE p.kat_notes

\* the head of a queue: <<>> when the queue is empty, else <<head>>
HeadOf(queue) == IF queue = <<>> THEN <<>> ELSE <<Head(queue)>>

\* the classification of the distance D between the hit and the head
TimingResult_strict(D, w) ==
    IF RLt(D, RInt(w.good)) THEN Judgment.GOOD
    ELSE IF RLt(D, RInt(w.ok)) THEN Judgment.OK
    ELSE IF RLt(D, RInt(w.bad)) THEN Judgment.BAD
    ELSE Judgment.NO_OP

TimingResult(D, w) ==
    IF RLe(D, RInt(w.good)) THEN Judgment.GOOD
    ELSE IF RLe(D, RInt(w.ok)) THEN Judgment.OK
    ELSE IF RLe(D, RInt(w.bad)) THEN Judgment.BAD
    ELSE Judgment.NO_OP

\* the queue after its head is consumed
pop_head_keep(queue) == queue

pop_head(queue) == Tail(queue)

\* the player after the head of the lane is judged with result res
Consume(p, lane, res) ==
    [p EXCEPT
       !.don_notes = IF lane = "don" THEN pop_head(@) ELSE @,
       !.kat_notes = IF lane = "kat" THEN pop_head(@) ELSE @,
       !.good_count = IF res = Judgment.GOOD THEN @ + 1 ELSE @,
       !.ok_count = IF res = Judgment.OK THEN @ + 1 ELSE @,
       !.bad_count = IF res = Judgment.BAD THEN @ + 1 ELSE @,
       !.judged = Append(@, Head(LaneQueue(p, lane)).index)]

\* a hit on a lane whose queue is empty
judge_empty_miss(p) ==
    [player |-> [p EXCEPT !.bad_count = @ + 1], result |-> Judgment.BAD]

judge_empty(p) == [player |-> p, result |-> Judgment.NO_OP]

\* judge(lane, hit_time_ms, windows): the player after the hit, and the result
check_note(p, lane, hit_time_ms) ==
    LET queue == LaneQueue(p, lane) IN
    IF queue = <<>> THEN judge_empty(p)
    ELSE LET D == RAbs(RSub(hit_time_ms, Head(queue).hit_ms))
             res == TimingResult(D, p.windows)
         IN IF res = Judgment.NO_OP THEN [player |-> p, result |-> res]
            ELSE [player |-> Consume(p, lane, res), result |-> res]

\* the charts of the judged playthroughs: one bar of don and kat cells
JudgeCharts == {<< <<Cells(s)>> >> : s \in CellStrings({"1", "2"}, MaxQueued)}

\* their tempo: bars of 125 ms, so that the notes of a bar lie within one
\* another's wider windows and out of reach of the narrower
JudgeBpms == {1920}

\* the distances from a note at which a hit is made: on the note, and on and
\* just outside the border of each window, one of the two late and the other
\* early
HitOffsets(w) ==
    {0, w.good, 0 - (w.good + 1), 0 - w.ok, w.ok + 1, w.bad, 0 - w.bad,
     0 - (w.bad + 1)}

\* the times of the hits: around every note of the chart, judged or not
HitTimes == {RAdd(results[1].play_notes[i].hit_ms, RInt(d)) :
                i \in 1..Len(results[1].play_notes), d \in HitOffsets(player.windows)}

Lanes == {"don", "kat"}

\* a chart is loaded and a player constructed on it (GameScreen2.init_tja)
InitJudge ==
    /\ metadata \in [bpm : JudgeBpms, balloon : {<<>>}]
    /\ notes \in JudgeCharts
    /\ pc = "idle"
    /\ bar_no = Len(notes)
    /\ \E w \in WindowSets :
         \E st \in {ParseBars(WithCursor(InitFrame(RInt(0)), RInt(0)), notes)} :
            /\ frame = Locals(st)
            /\ current_ms = st.current_ms
            /\ results = <<NoteListOf(st)>>
            /\ player = NewPlayer(NoteListOf(st), w)
    /\ last = <<>>
    /\ ms_from_start = RInt(0)
    /\ screen = <<>>

\* a hit of the drum: one call of check_note
Hit(lane, hit_time_ms) ==
    /\ pc = "idle"
    /\ player # <<>>
    /\ \E r \in {check_note(player, lane, hit_time_ms)} :
          /\ player' = r.player
          /\ last' = [lane |-> lane, hit_time_ms |-> hit_time_ms,
                      head |-> HeadOf(LaneQueue(player, lane)),
                      result |-> r.result]
    /\ UNCHANGED <<metadata, notes, current_ms, frame, pc, bar_no, results,
                   ms_from_start, screen>>

NextJudge == \E lane \in Lanes : \E t \in HitTimes : Hit(lane, t)

SpecJudge == InitJudge /\ [][NextJudge]_vars

(***************************************************************************)
(* Definitions the properties below are stated with.                       *)
(***************************************************************************)
\* the characters of all note-cell strings of a chart, in chart order
RECURSIVE BarChars(_)
BarChars(bar) ==
    IF bar = <<>> THEN <<>>
    ELSE (IF IsDirective(Head(bar)) THEN <<>> ELSE Head(bar).s) \o BarChars(Tail(bar))

RECURSIVE ChartChars(_)
ChartChars(chart) ==
    IF chart = <<>> THEN <<>> ELSE BarChars(Head(chart)) \o ChartChars(Tail(chart))

HitMsOf(a) == [i \in 1..Len(a) |-> a[i].hit_ms]

IsHeadType(ty) ==
    ty \in {NoteType.ROLL_HEAD, NoteType.ROLL_HEAD_L, NoteType.BALLOON_HEAD,
            NoteType.KUSUDAMA}

\* a call has returned
Returned == results # <<>>

\* every BPM and every time signature of the chart is positive
PositiveTempo(chart) ==
    /\ metadata.bpm > 0
    /\ \A b \in 1..Len(chart) : \A i \in 1..Len(chart[b]) :
          /\ chart[b][i].k = "#BPMCHANGE" => chart[b][i].v > 0
          /\ chart[b][i].k = "#MEASURE" => chart[b][i].a * chart[b][i].b > 0

AllSorted(nl) ==
    /\ SortedByHitMs(nl.play_notes)
    /\ SortedByHitMs(nl.draw_notes)
    /\ SortedByHitMs(nl.bars)
    /\ SortedByHitMs(nl.timeline)

(***************************************************************************)
(* C1 as stated: every returned NoteList has play_notes, draw_notes, bars  *)
(* and timeline non-decreasing in hit_ms, and the timeline was sorted      *)
(* after every insertion.  A chart with a negative #BPMCHANGE refutes it.  *)
(***************************************************************************)
C1_AsStated ==
    /\ \A i \in 1..Len(results) : AllSorted(results[i])
    /\ frame # <<>> => frame.timeline_ok

(***************************************************************************)
(* C1, amended: the timeline of every returned NoteList is non-decreasing  *)
(* in hit_ms and was so after every insertion; play_notes, draw_notes and  *)
(* bars are non-decreasing in hit_ms when every BPM and time signature of  *)
(* the chart is positive.                                                  *)
(***************************************************************************)
C1_SortedByHitMs ==
    /\ \A i \in 1..Len(results) :
          /\ SortedByHitMs(results[i].timeline)
          /\ PositiveTempo(notes) => AllSorted(results[i])
    /\ frame # <<>> => frame.timeline_ok

\* a returned NoteList of a chart of positive tempo with a #BPMCHANGE, two notes
\* and two bar lines
C1_Witness ==
    /\ Returned
    /\ PositiveTempo(notes)
    /\ Len(results[1].timeline) >= 2
    /\ Len(results[1].play_notes) >= 2
    /\ Len(results[1].bars) >= 2

\* heads and TAILs alternate in a sequence of kinds: every head is closed by a
\* TAIL before the next head and before the end, every TAIL closes an open head
RECURSIVE Bracketed(_, _)
Bracketed(kinds, open) ==
    IF kinds = <<>> THEN ~open
    ELSE IF IsHeadType(Head(kinds)) THEN ~open /\ Bracketed(Tail(kinds), TRUE)
    ELSE IF Head(kinds) = NoteType.TAIL THEN open /\ Bracketed(Tail(kinds), FALSE)
    ELSE Bracketed(Tail(kinds), open)

KindsOfChart(chart) == LET cs == ChartChars(chart) IN [i \in 1..Len(cs) |-> int(cs[i])]

IsHeadOrTail(note) == IsHeadType(note.type) \/ note.type = NoteType.TAIL

\* every head of draw has one paired TAIL (the next head-or-tail note after it),
\* of greater index, and every TAIL is the paired TAIL of one head
WellPaired(draw) ==
    /\ \A i \in 1..Len(draw) : IsHeadType(draw[i].type) =>
          \E j \in (i + 1)..Len(draw) :
              /\ draw[j].type = NoteType.TAIL
              /\ draw[j].index > draw[i].index
              /\ \A m \in (i + 1)..(j - 1) : ~IsHeadOrTail(draw[m])
    /\ \A j \in 1..Len(draw) : draw[j].type = NoteType.TAIL =>
          \E i \in 1..(j - 1) :
              /\ IsHeadType(draw[i].type)
              /\ \A m \in (i + 1)..(j - 1) : ~IsHeadOrTail(draw[m])

IsBalloonHead(note) == note.type \in {NoteType.BALLOON_HEAD, NoteType.KUSUDAMA}
BalloonsOf(nl) == SelectSeq(nl.draw_notes, IsBalloonHead)
IsBalloonKind(ty) == ty \in {NoteType.BALLOON_HEAD, NoteType.KUSUDAMA}
BalloonCells(chart) == SelectSeq(KindsOfChart(chart), IsBalloonKind)

(***************************************************************************)
(* C3: in every returned NoteList the i-th balloon or kusudama head ('7'   *)
(* or '9' cell, in chart order) has the i-th count of the declared balloon *)
(* list, for every i up to the length of that list.                        *)
(***************************************************************************)
C3_BalloonFifo ==
    \A r \in 1..Len(results) :
        LET B == BalloonsOf(results[r])
            cells == BalloonCells(notes)
        IN  /\ Len(B) = Len(cells)
            /\ \A i \in 1..Len(B) :
                  /\ B[i].type = cells[i]
                  /\ i <= Len(metadata.balloon) => B[i].count = metadata.balloon[i]

\* a returned NoteList with two balloons and two declared counts
C3_Witness ==
    /\ Returned
    /\ Len(BalloonsOf(results[1])) >= 2
    /\ Len(metadata.balloon) >= 2

RECURSIVE HasOrphanTail(_, _)
HasOrphanTail(kinds, open) ==
    IF kinds = <<>> THEN FALSE
    ELSE IF IsHeadType(Head(kinds)) THEN HasOrphanTail(Tail(kinds), TRUE)
    ELSE IF Head(kinds) = NoteType.TAIL THEN ~open \/ HasOrphanTail(Tail(kinds), FALSE)
    ELSE HasOrphanTail(Tail(kinds), open)

\* the first note cell (not '0') of a sequence of kinds is a TAIL
RECURSIVE FirstNoteIsTail(_)
FirstNoteIsTail(kinds) ==
    IF kinds = <<>> THEN FALSE
    ELSE IF Head(kinds) = NoteType.NONE THEN FirstNoteIsTail(Tail(kinds))
    ELSE Head(kinds) = NoteType.TAIL

(***************************************************************************)
(* C5 as stated: once a TAIL cell has been met while no roll or balloon    *)
(* was open, the call has failed.  The chart "18" refutes it.              *)
(***************************************************************************)
C5_AsStated == HasOrphanTail(KindsOfChart(notes), FALSE) => pc = "raised"

(***************************************************************************)
(* C5, amended: a TAIL cell makes the call fail (ValueError) exactly when  *)
(* no note at all precedes it in the chart; a TAIL cell after any earlier  *)
(* note (a DON/KAT, a head, or another TAIL) is accepted.                  *)
(***************************************************************************)
C5_TailNeedsPreviousNote ==
    /\ pc = "raised" <=> FirstNoteIsTail(KindsOfChart(notes))
    /\ pc = "raised" => frame.raised = "ValueError"

\* the call has failed on a TAIL cell that follows a silent cell
C5_Witness ==
    /\ pc = "raised"
    /\ frame.raised = "ValueError"
    /\ Len(ChartChars(notes)) >= 2

(***************************************************************************)
(* C8 as stated: play_notes of every returned NoteList holds only notes of *)
(* kind DON, KAT, DON_L or KAT_L.  The chart "5" refutes it.               *)
(***************************************************************************)
C8_AsStated ==
    \A r \in 1..Len(results) : \A i \in 1..Len(results[r].play_notes) :
        results[r].play_notes[i].type \in
            {NoteType.DON, NoteType.KAT, NoteType.DON_L, NoteType.KAT_L}

IsNoteKind(ty) == ty # NoteType.NONE

(***************************************************************************)
(* C8, amended: play_notes of every returned NoteList is the same sequence *)
(* as draw_notes and holds one note per note cell of the chart, of every   *)
(* kind and in chart order: roll heads, balloon and kusudama heads and     *)
(* TAILs are in play_notes too.                                            *)
(***************************************************************************)
C8_PlayNotesHoldAllKinds ==
    \A r \in 1..Len(results) :
        /\ results[r].play_notes = results[r].draw_notes
        /\ [i \in 1..Len(results[r].play_notes) |-> results[r].play_notes[i].type]
               = SelectSeq(KindsOfChart(notes), IsNoteKind)

\* a returned NoteList with a roll head, a balloon head or a TAIL in play_notes
C8_Witness ==
    /\ Returned
    /\ \E i \in 1..Len(results[1].play_notes) :
          IsHeadOrTail(results[1].play_notes[i])

(***************************************************************************)
(* C6 as stated: two calls of notes_to_position on the same parser and     *)
(* chart return NoteLists with the same hit_ms sequences in play_notes,    *)
(* draw_notes, bars and timeline.  The second call starts at the cursor    *)
(* the first one left, so the chart "1" refutes it.                        *)
(***************************************************************************)
C6_Idempotent ==
    Len(results) >= 2 =>
        /\ HitMsOf(results[1].play_notes) = HitMsOf(results[2].play_notes)
        /\ HitMsOf(results[1].draw_notes) = HitMsOf(results[2].draw_notes)
        /\ HitMsOf(results[1].bars) = HitMsOf(results[2].bars)
        /\ HitMsOf(results[1].timeline) = HitMsOf(results[2].timeline)

\* a bar with note cells whose BPM and time signature do not change once its
\* first note-cell string has begun
ConstantTempoBar(bar) ==
    /\ SumLen(bar) > 0
    /\ \A i \in 1..Len(bar) : bar[i].k \in {"#BPMCHANGE", "#MEASURE"} =>
          \A j \in 1..(i - 1) : IsDirective(bar[j])

\* the positions, in a bar's note cells, of the cells that are notes
NotePositions(cs) ==
    LET IsNote(k) == cs[k] # "0"
    IN  SelectSeq([k \in 1..Len(cs) |-> k], IsNote)

\* the first call has parsed one more bar without failing
BarStep ==
    /\ pc = "parsing" /\ pc' = "parsing"
    /\ results = <<>>
    /\ bar_no' = bar_no + 1

Judged == last # <<>>
JudgedAgainstHead == Judged /\ last.head # <<>>

\* D = |hit_time_ms - head.hit_ms| of the last hit
LastD == RAbs(RSub(last.hit_time_ms, last.head[1].hit_ms))

OrderedWindows(w) == w.good <= w.ok /\ w.ok <= w.bad

Consuming == {Judgment.GOOD, Judgment.OK, Judgment.BAD}

Range(f) == {f[i] : i \in DOMAIN f}

(***************************************************************************)
(* C9: a hit judged against the head of its lane's queue, with             *)
(* D = |hit_time_ms - head.hit_ms| and windows good <= ok <= bad, is GOOD  *)
(* iff D <= good, OK iff good < D <= ok, BAD iff ok < D <= bad and NO_OP   *)
(* iff D > bad.                                                            *)
(***************************************************************************)
C9_Classification ==
    (JudgedAgainstHead /\ OrderedWindows(player.windows)) =>
        LET w == player.windows
            good == RInt(w.good)
            ok == RInt(w.ok)
            bad == RInt(w.bad)
        IN /\ (last.result = Judgment.GOOD) <=> RLe(LastD, good)
           /\ (last.result = Judgment.OK) <=> (RLt(good, LastD) /\ RLe(LastD, ok))
           /\ (last.result = Judgment.BAD) <=> (RLt(ok, LastD) /\ RLe(LastD, bad))
           /\ (last.result = Judgment.NO_OP) <=> RLt(bad, LastD)

\* hits on the very border of a window: an OK at D = ok, with a note judged
\* before it
C9_Witness ==
    /\ JudgedAgainstHead
    /\ last.result = Judgment.OK
    /\ LastD = RInt(player.windows.ok)
    /\ player.windows.good < player.windows.ok
    /\ Len(player.judged) = 2

(***************************************************************************)
(* C10: every hit is compared with the head the lane's queue has at the    *)
(* time of the hit and with no other note; a GOOD, OK or BAD result        *)
(* removes exactly that head from its queue, leaves the other queue alone, *)
(* counts once, and the note had not been judged before; a NO_OP result    *)
(* leaves the queues, their heads and all counters unchanged.              *)
(***************************************************************************)
C10_HeadOnly ==
    [][last' # last =>
         LET lane == last'.lane
             queue == LaneQueue(player, lane)
         IN /\ last'.head = HeadOf(queue)
            /\ queue # <<>> =>
                  last'.result =
                      TimingResult(RAbs(RSub(last'.hit_time_ms, Head(queue).hit_ms)),
                                   player.windows)
            /\ last'.result \in Consuming =>
                  /\ queue # <<>>
                  /\ LaneQueue(player', lane) = Tail(queue)
                  /\ \A other \in Lanes \ {lane} :
                        LaneQueue(player', other) = LaneQueue(player, other)
                  /\ ~(Head(queue).index \in Range(player.judged))
                  /\ player'.judged = Append(player.judged, Head(queue).index)
                  /\ player'.good_count + player'.ok_count + player'.bad_count
                        = player.good_count + player.ok_count + player.bad_count + 1
                  /\ player'.good_count = player.good_count
                        + (IF last'.result = Judgment.GOOD THEN 1 ELSE 0)
                  /\ player'.ok_count = player.ok_count
                        + (IF last'.result = Judgment.OK THEN 1 ELSE 0)
            /\ last'.result = Judgment.NO_OP => player' = player
    ]_vars

\* a hit on the very time of the second note of a queue whose head is out of
\* reach: NO_OP, both notes stay queued
C10_Witness ==
    /\ JudgedAgainstHead
    /\ last.result = Judgment.NO_OP
    /\ Len(LaneQueue(player, last.lane)) >= 2
    /\ last.hit_time_ms = LaneQueue(player, last.lane)[2].hit_ms

(***************************************************************************)
(* C11: a hit on a lane whose queue is empty returns NO_OP and changes     *)
(* neither a queue nor a counter nor any other field of the playthrough;   *)
(* the judgment is defined for it (nothing is raised).                     *)
(***************************************************************************)
C11_EmptyQueueNoOp ==
    [][(last' # last /\ LaneQueue(player, last'.lane) = <<>>) =>
          /\ last'.result = Judgment.NO_OP
          /\ last'.head = <<>>
          /\ player' = player
          /\ UNCHANGED <<metadata, notes, current_ms, frame, pc, bar_no, results>>
    ]_vars

\* a lane drained by judged hits is hit once more
C11_Witness ==
    /\ Judged
    /\ last.head = <<>>
    /\ last.result = Judgment.NO_OP
    /\ LaneQueue(player, last.lane) = <<>>
    /\ \E i \in 1..Len(results[1].play_notes) :
          /\ results[1].play_notes[i].index \in Range(player.judged)
          /\ (IF last.lane = "don" THEN IsDon(results[1].play_notes[i])
              ELSE IsKat(results[1].play_notes[i]))

(***************************************************************************)
(* Drumrolls and balloons in play.  The roll and balloon handling of       *)
(* Player (scenes/game.py, not part of the sources at hand) is the         *)
(* specification's "Drumroll consumption" and "Balloon consumption"; the   *)
(* fields are those Player2.reset_chart sets up (lines 64, 78-85) and the  *)
(* automatic hits are AIPlayer.autoplay_manager's (lines 260-292).         *)
(***************************************************************************)
\* the time between two frames, in ms
FrameMs == 250

RFloor(x) == x.n \div x.d

IsRollHead(note) == note.type \in {NoteType.ROLL_HEAD, NoteType.ROLL_HEAD_L}
IsBalloonNote(note) == note.type \in {NoteType.BALLOON_HEAD, NoteType.KUSUDAMA}

\* reset_chart, lines 62-65 and 78-85, and the fields of Player.__init__
NewRollPlayer(nl, windows, auto) ==
    [don_notes |-> don_notes_of(nl), kat_notes |-> kat_notes_of(nl),
     other_notes |-> other_notes_of(nl),
     good_count |-> 0, ok_count |-> 0, bad_count |-> 0,
     windows |-> windows,
     judged |-> <<>>,
     is_drumroll |-> FALSE, curr_drumroll_count |-> 0,
     is_balloon |-> FALSE, curr_balloon_count |-> 0,
     total_drumroll |-> 0,
     bpm |-> IF nl.timeline # <<>> THEN nl.timeline[1].bpm ELSE RInt(120),
     auto |-> auto,
     last_subdivision |-> -1,
     balloons |-> <<>>]   \* per balloon met: index, count, hits taken, popped, retired

\* the balloon's entry of the log, changed by f
LogBalloon(p, index, hits, popped, retired) ==
    [i \in 1..Len(p.balloons) |->
        IF p.balloons[i].index = index
        THEN [p.balloons[i] EXCEPT !.hits = hits, !.popped = popped, !.retired = retired]
        ELSE p.balloons[i]]

\* the roll or balloon at the head of other_notes ends once the time has
\* passed the hit_ms of its TAIL
roll_end(p, t) ==
    LET o == p.other_notes IN
    IF Len(o) >= 2 /\ RLt(o[2].hit_ms, t)
    THEN [p EXCEPT !.other_notes = SubSeq(o, 3, Len(o)),
                   !.is_drumroll = FALSE, !.is_balloon = FALSE,
                   !.curr_drumroll_count = 0, !.curr_balloon_count = 0,
                   !.balloons = IF IsBalloonNote(o[1]) /\ \E i \in 1..Len(@) : @[i].index = o[1].index
                                THEN LogBalloon(p, o[1].index,
                                                (CHOOSE b \in Range(@) : b.index = o[1].index).hits,
                                                o[1].popped, TRUE)
                                ELSE @]
    ELSE p

\* a roll or balloon becomes active once the time has reached its hit_ms
roll_begin(p, t) ==
    LET o == p.other_notes IN
    IF o = <<>> \/ p.is_drumroll \/ p.is_balloon \/ RLt(t, o[1].hit_ms) THEN p
    ELSE IF IsRollHead(o[1]) THEN [p EXCEPT !.is_drumroll = TRUE]
    ELSE IF IsBalloonNote(o[1]) /\ ~o[1].popped
         THEN [p EXCEPT !.is_balloon = TRUE,
                        !.balloons = Append(@, [index |-> o[1].index, count |-> o[1].count,
                                                hits |-> 0, popped |-> FALSE,
                                                retired |-> FALSE])]
    ELSE p

note_manager(p, t) == roll_begin(roll_end(p, t), t)

\* the balloon pops with the hit that brings its count to the required one
balloon_popped_early(curr_balloon_count, count) == curr_balloon_count + 1 >= count

balloon_popped(curr_balloon_count, count) == curr_balloon_count >= count

RollResult == [ROLL |-> "ROLL", BALLOON |-> "BALLOON"]

check_drumroll(p) ==
    [player |-> [p EXCEPT !.curr_drumroll_count = @ + 1, !.total_drumroll = @ + 1],
     result |-> RollResult.ROLL]

check_balloon(p) ==
    LET head == p.other_notes[1]
        c == p.curr_balloon_count + 1
        pops == balloon_popped(c, head.count)
    IN [player |-> [p EXCEPT !.curr_balloon_count = c,
                             !.is_balloon = ~pops,
                             !.other_notes[1].popped = pops,
                             !.balloons = LogBalloon(p, head.index, c, pops, FALSE)],
        result |-> RollResult.BALLOON]

\* a hit of the drum that takes no notice of a drumroll
roll_check_note_judged(p, lane, t) ==
    IF p.is_balloon THEN check_balloon(p) ELSE check_note(p, lane, t)

\* a hit of the drum at song time t
roll_check_note(p, lane, t) ==
    IF p.is_drumroll THEN check_drumroll(p)
    ELSE IF p.is_balloon THEN check_balloon(p)
    ELSE check_note(p, lane, t)

\* AIPlayer.autoplay_manager: the hit an automatic player makes in a frame,
\* <<>> if none.  Lines 278-292 run _adjust_timing on its two queues, which
\* are empty in the charts an automatic player is given here.
autoplay_manager(p, t) ==
    IF ~p.auto THEN [player |-> p, hit |-> <<>>]
    ELSE IF p.is_drumroll \/ p.is_balloon
    THEN LET subdivision_in_ms ==
                 IF p.bpm = RInt(0) THEN 0
                 ELSE RFloor(RDiv(t, RDiv(RDiv(RInt(60000 * 4), p.bpm), RInt(24))))
         IN IF subdivision_in_ms > p.last_subdivision
            THEN [player |-> [p EXCEPT !.last_subdivision = subdivision_in_ms],
                  hit |-> <<"don">>]
            ELSE [player |-> p, hit |-> <<>>]
    ELSE [player |-> p, hit |-> <<>>]

\* the charts of these playthroughs: one bar in which heads and TAILs pair up
RollChars == {"0", "1", "5", "7", "8"}
RollCharts ==
    {c \in {<< <<Cells(s)>> >> : s \in CellStrings(RollChars, MaxPlainCells)} :
        /\ Bracketed(KindsOfChart(c), FALSE)
        /\ \E i \in 1..Len(KindsOfChart(c)) : IsHeadType(KindsOfChart(c)[i])}

Keys == {"none", "don", "kat"}

InitRoll ==
    /\ metadata \in [bpm : InitialBpms, balloon : {<<>>, <<3>>}]
    /\ notes \in RollCharts
    /\ pc = "idle"
    /\ bar_no = Len(notes)
    /\ \E auto \in BOOLEAN :
         \E st \in {ParseBars(WithCursor(InitFrame(RInt(0)), RInt(0)), notes)} :
            /\ frame = Locals(st)
            /\ current_ms = st.current_ms
            /\ results = <<NoteListOf(st)>>
            /\ player = NewRollPlayer(NoteListOf(st), timing_windows(Difficulty.ONI), auto)
            /\ auto => (player.don_notes = <<>> /\ player.kat_notes = <<>>)
    /\ last = <<>>
    /\ ms_from_start = RInt(0 - FrameMs)
    /\ screen = <<>>

\* one frame of Player.update: the time advances, rolls end and begin, the
\* automatic player makes its hit, the human player the hit of the key pressed
RollFrame(key) ==
    /\ pc = "idle"
    /\ RLt(ms_from_start, RInt((MaxFrames - 1) * FrameMs))
    /\ key # "none" => ~player.auto
    /\ \E t \in {RAdd(ms_from_start, RInt(FrameMs))} :
       \E a \in {autoplay_manager(note_manager(player, t), t)} :
       \E lane \in {IF a.hit # <<>> THEN a.hit[1] ELSE key} :
          /\ ms_from_start' = t
          /\ IF lane = "none"
             THEN /\ player' = a.player
                  /\ last' = last
             ELSE \E r \in {roll_check_note(a.player, lane, t)} :
                     /\ player' = r.player
                     /\ last' = [lane |-> lane, hit_time_ms |-> t,
                                 head |-> HeadOf(LaneQueue(a.player, lane)),
                                 result |-> r.result,
                                 in_roll |-> a.player.is_drumroll,
                                 in_balloon |-> a.player.is_balloon]
    /\ UNCHANGED <<metadata, notes, current_ms, frame, pc, bar_no, results, screen>>

NextRoll == \E key \in Keys : RollFrame(key)

SpecRoll == InitRoll /\ [][NextRoll]_vars

(***************************************************************************)
(* Definitions of the roll and balloon properties.                         *)
(***************************************************************************)
\* a drumroll of other_notes whose head and TAIL have the time t between them
ActiveRollAt(p, t) ==
    \E i \in 1..(Len(p.other_notes) - 1) :
        /\ IsRollHead(p.other_notes[i])
        /\ p.other_notes[i + 1].type = NoteType.TAIL
        /\ RLe(p.other_notes[i].hit_ms, t)
        /\ RLe(t, p.other_notes[i + 1].hit_ms)

\* an unpopped balloon of other_notes whose head and TAIL have t between them
ActiveBalloonAt(p, t) ==
    \E i \in 1..(Len(p.other_notes) - 1) :
        /\ IsBalloonNote(p.other_notes[i])
        /\ ~p.other_notes[i].popped
        /\ RLe(p.other_notes[i].hit_ms, t)
        /\ RLe(t, p.other_notes[i + 1].hit_ms)

Counters(p) == <<p.good_count, p.ok_count, p.bad_count>>

(***************************************************************************)
(* C12: a balloon that requires N hits is popped exactly when N hits have  *)
(* been delivered to it while it was active, and never takes more; one     *)
(* retired after its TAIL with fewer than N hits (2 of 3, say) is not      *)
(* popped, and this is no failure: nothing is raised and no miss counted.  *)
(***************************************************************************)
C12_BalloonPops ==
    /\ \A i \in 1..Len(player.balloons) :
          LET b == player.balloons[i] IN
          /\ b.hits <= b.count
          /\ b.popped <=> (b.hits = b.count)
          /\ (b.retired /\ b.hits < b.count) => ~b.popped
          /\ \A j \in 1..Len(player.other_notes) :
                player.other_notes[j].index = b.index =>
                    player.other_notes[j].popped = b.popped
    /\ player.is_balloon =>
          /\ player.balloons # <<>>
          /\ player.balloons[Len(player.balloons)].hits = player.curr_balloon_count
          /\ ~player.balloons[Len(player.balloons)].popped
    /\ pc = "idle"
    /\ player.good_count + player.ok_count + player.bad_count = Len(player.judged)

\* a balloon of 3 hits retired with 2 hits taken
C12_Witness ==
    \E i \in 1..Len(player.balloons) :
        /\ player.balloons[i].count = 3
        /\ player.balloons[i].hits = 2
        /\ player.balloons[i].retired
        /\ ~player.balloons[i].popped

(***************************************************************************)
(* C13: a hit made while the time is between the hit_ms of a drumroll's    *)
(* head and that of its TAIL is counted by the roll counters, is given no  *)
(* GOOD, OK or BAD and takes no note off the don and kat queues; a hit     *)
(* made when no drumroll and no balloon is active is judged against the    *)
(* head of its lane's queue.                                               *)
(***************************************************************************)
C13_RollHits ==
    [][last' # last =>
         LET t == ms_from_start'
             lane == last'.lane
             queue == LaneQueue(player, lane)
         IN /\ last'.hit_time_ms = t
            /\ ActiveRollAt(player, t) =>
                  /\ last'.result = RollResult.ROLL
                  /\ player'.total_drumroll = player.total_drumroll + 1
                  /\ player'.curr_drumroll_count =
                        (IF player.is_drumroll THEN player.curr_drumroll_count ELSE 0) + 1
                  /\ player'.don_notes = player.don_notes
                  /\ player'.kat_notes = player.kat_notes
                  /\ Counters(player') = Counters(player)
                  /\ player'.judged = player.judged
            /\ (~ActiveRollAt(player, t) /\ ~ActiveBalloonAt(player, t)) =>
                  /\ player'.total_drumroll = player.total_drumroll
                  /\ last'.result =
                        (IF queue = <<>> THEN Judgment.NO_OP
                         ELSE TimingResult(RAbs(RSub(t, Head(queue).hit_ms)),
                                           player.windows))
    ]_vars

\* hits were counted by a drumroll, the drumroll has ended, and the last hit
\* was judged against a queue head
C13_Witness ==
    /\ Judged
    /\ player.total_drumroll >= 2
    /\ last.result \in Consuming
    /\ ~player.is_drumroll
    /\ player.other_notes = <<>>

(***************************************************************************)
(* The AI battle: scenes/ai_battle/game.py, AIBattleGameScreen.  Two       *)
(* players on one chart, frame by frame.  The state of a fresh screen      *)
(* (GameScreen.on_screen_start) and Player.update are in scenes/game.py    *)
(* (not part of the sources at hand).                                      *)
(***************************************************************************)
\* the time between two frames of a battle, in ms
BattleFrameMs == 2000

\* the chart of the battles, at 24 BPM: a bar with a balloon and its TAIL, and a
\* bar of five don and kat notes 2000 ms apart
BattleCharts ==
    {<< <<Cells(<<"7", "8">>)>>, <<Cells(<<"1", "1", "2", "1", "1">>)>> >>}
BattleBpms == {24}
\* the start delay puts the notes 0, 50 or 100 ms off the frames
BattleDelays == {0, 50, 100}

\* metadata.offset * 1000: the song time of the first frame after init_tja is 0
BattleOffsetMs == 0 - BattleFrameMs

\* TJAParser(song, start_delay): the cursor of a parser just constructed
NewParser(start_delay) == [current_ms |-> RInt(start_delay), calls |-> 0]

\* no copy: the second player is given self.tja itself
deepcopy_alias(parsers) == [ref |-> "tja", parsers |-> parsers]

\* line 96, tja_copy = copy.deepcopy(self.tja): a parser object of its own,
\* with the state self.tja has at that time
deepcopy(parsers) ==
    [ref |-> "tja_copy",
     parsers |-> [r \in {"tja", "tja_copy"} |-> parsers.tja]]

\* Player.__init__ on the parser ref: reset_chart calls notes_to_position,
\* which reads and advances that parser's cursor
ParseOn(parsers, ref, chart) ==
    LET st == ParseBars(WithCursor(InitFrame(parsers[ref].current_ms),
                                   parsers[ref].current_ms), chart)
    IN [nl |-> NoteListOf(st),
        parsers |-> [parsers EXCEPT ![ref] = [current_ms |-> st.current_ms,
                                              calls |-> @.calls + 1]]]

\* AIPlayer.__init__, lines 243-244
AIPercentages == [good_percentage |-> RNorm(90, 100), ok_percentage |-> RNorm(7, 100)]

\* a player constructed on the NoteList its own call of notes_to_position
\* returned; end_time as in reset_chart, lines 91-93
NewBattlePlayer(nl, difficulty, auto) ==
    NewRollPlayer(nl, timing_windows(difficulty), auto)
    @@ [end_time |-> IF nl.play_notes # <<>>
                     THEN nl.play_notes[Len(nl.play_notes)].hit_ms ELSE RInt(0),
        difficulty |-> difficulty]
    @@ (IF auto THEN AIPercentages ELSE <<>>)

\* init_tja, lines 88-104, at the time current_time.  Every call of
\* notes_to_position makes its own Note objects: objs names, for each player,
\* the parser call that made its notes (gen counts the calls of init_tja).
init_tja(scr, start_delay, chart, current_time) ==
    LET tja == [tja |-> NewParser(start_delay)]
        tja_copy == deepcopy(tja)
        r1 == ParseOn(tja_copy.parsers, "tja", chart)
        r2 == ParseOn(r1.parsers, tja_copy.ref, chart)
        p1 == NewBattlePlayer(r1.nl, Difficulty.ONI, FALSE)
        p2 == NewBattlePlayer(r2.nl, Difficulty.ONI, TRUE)
    IN [scr EXCEPT
          !.parsers = r2.parsers,
          !.player_1 = p1,
          !.player_2 = p2,
          !.gen = @ + 1,
          !.objs = [player_1 |-> <<scr.gen + 1, "tja", 1>>,
                    player_2 |-> <<scr.gen + 1, tja_copy.ref,
                                   r2.parsers[tja_copy.ref].calls>>],
          !.start_ms = current_time - BattleOffsetMs,
          !.total_notes = Len(p1.don_notes) + Len(p1.kat_notes)]

\* GameScreen.on_screen_start: the screen before its first init_tja
BlankScreen ==
    [parsers |-> <<>>, player_1 |-> <<>>, player_2 |-> <<>>, gen |-> 0, objs |-> <<>>,
     start_ms |-> 0, total_notes |-> 0,
     current_time |-> 0, end_ms |-> 0, result_transition |-> "idle",
     song_started |-> FALSE, restarts |-> 0, raised |-> "",
     start_delay |-> 0, pc |-> "frame"]

\* a song freshly started at current_time
FreshScreen(start_delay, chart, current_time) ==
    [init_tja(BlankScreen, start_delay, chart, current_time)
        EXCEPT !.current_time = current_time, !.start_delay = start_delay]

InitBattle ==
    /\ metadata \in [bpm : BattleBpms, balloon : {<<>>}]
    /\ notes \in BattleCharts
    /\ pc = "idle"
    /\ bar_no = Len(notes)
    /\ frame = <<>>
    /\ current_ms = RInt(0)
    /\ results = <<>>
    /\ player = <<>>
    /\ last = <<>>
    /\ ms_from_start = RInt(0)
    /\ \E d \in BattleDelays : screen = FreshScreen(d, notes, 0)

\* lines 115-129: the time of the frame, and player_1.update with the key of
\* the human player
BattleBegin(key) ==
    /\ screen.pc = "frame"
    /\ screen.current_time < MaxBattleFrames * BattleFrameMs
    /\ \E now \in {screen.current_time + BattleFrameMs} :
       \E t \in {RInt(now - screen.start_ms)} :
       \E p \in {note_manager(screen.player_1, t)} :
          /\ ms_from_start' = t
          /\ screen' = [screen EXCEPT
                 !.current_time = now,
                 !.song_started = TRUE,
                 !.player_1 = IF key = "none" THEN p
                              ELSE roll_check_note(p, key, t).player,
                 !.pc = "player_2"]
    /\ UNCHANGED <<metadata, notes, current_ms, frame, pc, bar_no, results, player, last>>

\* line 130, player_2.update, as far as autoplay_manager's choice of branch
\* (lines 262-276)
BattleAutoplay ==
    /\ screen.pc = "player_2"
    /\ \E p \in {note_manager(screen.player_2, ms_from_start)} :
       \E a \in {autoplay_manager(p, ms_from_start)} :
          screen' = [screen EXCEPT
              !.player_2 = IF a.hit = <<>> THEN a.player
                           ELSE roll_check_note(a.player, a.hit[1], ms_from_start).player,
              !.pc = IF p.is_drumroll \/ p.is_balloon THEN "rest" ELSE "adjust_don"]
    /\ UNCHANGED <<metadata, notes, current_ms, frame, pc, bar_no, results, player, last,
                   ms_from_start>>

R0 == RInt(0)
R1 == RInt(1)

\* lines 299-311: the timing offsets the random draws can give, by the border
\* values of each tier that can be drawn
TimingOffsets(p) ==
    LET w == p.windows IN
    (IF RLt(R0, p.good_percentage) THEN {R0, RNorm(w.good, 2)} ELSE {})
    \cup (IF RLt(p.good_percentage, R1) /\ RLt(R0, p.ok_percentage)
          THEN {RInt(w.good), RInt(w.ok), RInt(0 - w.ok)} ELSE {})
    \cup (IF RLt(RAdd(p.good_percentage, p.ok_percentage), R1)
          THEN {RInt(w.bad), RInt(0 - w.bad), RNorm(3 * w.bad, 2), RNorm(0 - 3 * w.bad, 2)}
          ELSE {})

\* line 297: while notes and ms_from_start >= notes[0].hit_ms
AdjustGuard(p, lane) ==
    /\ LaneQueue(p, lane) # <<>>
    /\ RLe(Head(LaneQueue(p, lane)).hit_ms, ms_from_start)

\* _adjust_timing, lines 298-316: one iteration of the loop
adjust_timing(lane) ==
    /\ screen.pc = "adjust_" \o lane
    /\ AdjustGuard(screen.player_2, lane)
    /\ \E timing_offset \in TimingOffsets(screen.player_2) :
       \E adjusted_ms \in {RAdd(Head(LaneQueue(screen.player_2, lane)).hit_ms,
                                timing_offset)} :
          screen' = [screen EXCEPT
              !.player_2 = roll_check_note(@, lane, adjusted_ms).player]
    /\ UNCHANGED <<metadata, notes, current_ms, frame, pc, bar_no, results, player, last,
                   ms_from_start>>

\* _adjust_timing, line 297: the loop is left
adjust_timing_exit(lane) ==
    /\ screen.pc = "adjust_" \o lane
    /\ ~AdjustGuard(screen.player_2, lane)
    /\ screen' = [screen EXCEPT !.pc = IF lane = "don" THEN "adjust_kat" ELSE "rest"]
    /\ UNCHANGED <<metadata, notes, current_ms, frame, pc, bar_no, results, player, last,
                   ms_from_start>>

\* update_scoreboards, lines 106-113
update_scoreboards(scr) ==
    LET section_notes == scr.total_notes \div 5
        p1 == scr.player_1
    IN IF p1.good_count + p1.ok_count + p1.bad_count = section_notes
       THEN IF section_notes = 0
            THEN [scr EXCEPT !.raised = "ZeroDivisionError"]
            ELSE [scr EXCEPT
                    !.player_2.good_percentage = RNorm(p1.good_count, section_notes),
                    !.player_2.ok_percentage = RNorm(p1.ok_count, section_notes),
                    !.player_1.good_count = 0, !.player_1.ok_count = 0,
                    !.player_1.bad_count = 0,
                    !.player_2.good_count = 0, !.player_2.ok_count = 0,
                    !.player_2.bad_count = 0]
       ELSE scr

\* update, lines 134-150: the end of the song; "left" once on_screen_end is
\* returned.  The result transition is finished at the update after its start.
end_of_song(scr, t) ==
    LET result_transition == IF scr.result_transition = "started" THEN "finished"
                             ELSE scr.result_transition
    IN IF result_transition = "finished"
       THEN [scr EXCEPT !.result_transition = result_transition, !.pc = "left"]
       ELSE IF RLe(scr.player_1.end_time, t)
       THEN IF scr.end_ms # 0
            THEN IF RLe(RAdd(RInt(scr.end_ms), RNorm(853334, 100)), RInt(scr.current_time))
                    /\ result_transition = "idle"
                 THEN [scr EXCEPT !.result_transition = "started"]
                 ELSE scr
            ELSE [scr EXCEPT !.end_ms = scr.current_time]
       ELSE scr

\* global_keys, lines 36-42: the restart key
global_keys(scr, restart_key) ==
    IF restart_key
    THEN [init_tja(scr, scr.start_delay, notes, scr.current_time)
             EXCEPT !.song_started = FALSE, !.restarts = @ + 1]
    ELSE scr

\* update, lines 131-152: the rest of the frame
BattleEnd(restart_key) ==
    /\ screen.pc = "rest"
    /\ restart_key => screen.restarts < MaxRestarts
    /\ \E s1 \in {update_scoreboards(screen)} :
          IF s1.raised # ""
          THEN screen' = [s1 EXCEPT !.pc = "raised"]
          ELSE \E s2 \in {end_of_song(s1, ms_from_start)} :
                  IF s2.pc = "left" THEN screen' = s2
                  ELSE screen' = [global_keys(s2, restart_key) EXCEPT !.pc = "frame"]
    /\ UNCHANGED <<metadata, notes, current_ms, frame, pc, bar_no, results, player, last,
                   ms_from_start>>

NextBattle ==
    \/ \E key \in Keys : BattleBegin(key)
    \/ BattleAutoplay
    \/ \E lane \in Lanes : adjust_timing(lane)
    \/ \E lane \in Lanes : adjust_timing_exit(lane)
    \/ \E restart_key \in BOOLEAN : BattleEnd(restart_key)

SpecBattle == InitBattle /\ [][NextBattle]_vars

(***************************************************************************)
(* Definitions of the battle properties.                                   *)
(***************************************************************************)
\* all notes a player holds
NotesHeld(p) == Range(p.don_notes) \cup Range(p.kat_notes) \cup Range(p.other_notes)

\* the two players hold notes of one chart: equal index, equal time and kind
SameChart(p1, p2) ==
    \A n1 \in NotesHeld(p1) : \A n2 \in NotesHeld(p2) :
        n1.index = n2.index => (n1.hit_ms = n2.hit_ms /\ n1.type = n2.type)

\* the steps of player_1.update and of player_2.update
Player1Acts == screen.pc = "frame"
Player2Acts == screen.pc \in {"player_2", "adjust_don", "adjust_kat"}

C15_RestartIsFresh ==
    [][screen'.restarts # screen.restarts =>
         LET fresh == FreshScreen(screen.start_delay, notes, screen'.current_time)
         IN /\ screen'.player_1 = fresh.player_1
            /\ screen'.player_2 = fresh.player_2
            /\ screen'.total_notes = fresh.total_notes
            /\ screen'.start_ms = fresh.start_ms
            /\ screen'.song_started = fresh.song_started
            /\ screen'.end_ms = fresh.end_ms
            /\ screen'.result_transition = fresh.result_transition
    ]_vars

(***************************************************************************)
(* scenes/game2.py, Player2: the managers of what is drawn.  Each frame    *)
(* bar_manager moves the next bar line, and draw_note_manager the next     *)
(* note, out of its queue once the time is within 10000 ms of its hit_ms;  *)
(* a head of kind 5..7 takes the first TAIL of the queue with it; then the *)
(* first note of current_notes_draw is dropped when the note it is judged  *)
(* by has crossed JUDGE_X.                                                 *)
(***************************************************************************)
\* GameScreen.JUDGE_X, tex.screen_width and tex.screen_scale (scenes/game.py
\* and libs/texture.py): positive stand-ins with JUDGE_X < screen_width
JUDGE_X == 414
screen_width == 1280
screen_scale == 1

\* the time between two frames and the time of the first one
DrawFrameMs == 2500
DrawStartMs == 0 - 15000
\* from this time on every comparison of a frame keeps its outcome
DrawEndMs == DrawStartMs + MaxDrawFrames * DrawFrameMs

\* Player2.reset_chart, lines 60, 76-77; entered records the index of every
\* note that was put into current_notes_draw
NewDrawPlayer(nl) ==
    [draw_note_list |-> nl.draw_notes, draw_bar_list |-> nl.bars,
     current_bars |-> <<>>, current_notes_draw |-> <<>>, raised |-> "",
     entered |-> {}]

\* a wrong guard: everything is moved at once
in_lookahead_always(obj, t) == TRUE

\* current_ms >= obj.hit_ms - 10000
in_lookahead(obj, t) == RLe(RSub(obj.hit_ms, RInt(10000)), t)

\* lines 95-97
get_position_x(note, t) ==
    LET speedx == RMul(RMul(RMul(RDiv(note.bpm, RInt(240000)), note.scroll_x),
                            RInt(screen_width - JUDGE_X)), RInt(screen_scale))
    IN  RAdd(RInt(JUDGE_X), RMul(RSub(note.hit_ms, t), speedx))

\* lines 104-109
bar_manager(p, t) ==
    IF p.draw_bar_list # <<>> /\ in_lookahead(Head(p.draw_bar_list), t)
    THEN [p EXCEPT !.current_bars = Append(@, Head(p.draw_bar_list)),
                   !.draw_bar_list = Tail(@)]
    ELSE p

\* bisect.bisect_left(a, x.index, key=lambda x: x.index), positions from 0
RECURSIVE bisect_left(_, _, _, _)
bisect_left(a, x, lo, hi) ==
    IF lo < hi
    THEN LET mid == (lo + hi) \div 2
         IN  IF a[mid + 1].index < x
             THEN bisect_left(a, x, mid + 1, hi)
             ELSE bisect_left(a, x, lo, mid)
    ELSE lo

\* bisect.insort_left(a, obj, key=lambda x: x.index)
insort_left(a, obj) ==
    LET at == bisect_left(a, obj.index, 0, Len(a))
    IN  SubSeq(a, 1, at) \o <<obj>> \o SubSeq(a, at + 1, Len(a))

\* Note.__eq__ (tja2.py 48-49, 90-91, 116-117): equal hit_ms
NoteEq(a, b) == a.hit_ms = b.hit_ms

\* deque.remove(obj): the first element equal to obj is removed
deque_remove(q, obj) ==
    LET at == CHOOSE k \in 1..Len(q) :
                  /\ NoteEq(q[k], obj)
                  /\ \A j \in 1..(k - 1) : ~NoteEq(q[j], obj)
    IN  SubSeq(q, 1, at - 1) \o SubSeq(q, at + 1, Len(q))

\* next(note for note in draw_note_list if note.type == NoteType.TAIL):
\* the place of the first TAIL, 0 when next() raises StopIteration
next_tail(q) ==
    IF \E k \in 1..Len(q) : q[k].type = NoteType.TAIL
    THEN CHOOSE k \in 1..Len(q) :
             /\ q[k].type = NoteType.TAIL
             /\ \A j \in 1..(k - 1) : q[j].type # NoteType.TAIL
    ELSE 0

\* lines 113-124; the exception of line 118 is raised again by line 122,
\* after the head was taken out of the queue and put into the active set
draw_note_pop(p, t) ==
    IF p.draw_note_list # <<>> /\ in_lookahead(Head(p.draw_note_list), t)
    THEN LET current_note == Head(p.draw_note_list)
             rest == Tail(p.draw_note_list)
             with_note == insort_left(p.current_notes_draw, current_note)
         IN  IF 5 <= current_note.type /\ current_note.type <= 7
             THEN IF next_tail(rest) = 0
                  THEN [p EXCEPT !.draw_note_list = rest,
                                 !.current_notes_draw = with_note,
                                 !.entered = @ \cup {current_note.index},
                                 !.raised = "StopIteration"]
                  ELSE LET tail_note == rest[next_tail(rest)]
                       IN  [p EXCEPT !.draw_note_list = deque_remove(rest, tail_note),
                                     !.current_notes_draw = insort_left(with_note, tail_note),
                                     !.entered = @ \cup {current_note.index, tail_note.index}]
             ELSE [p EXCEPT !.draw_note_list = rest,
                            !.current_notes_draw = with_note,
                            !.entered = @ \cup {current_note.index}]
    ELSE p

\* a wrong brightening: no ceiling
draw_note_color_unbounded(p) ==
    IF p.current_notes_draw[1].cls = "Drumroll"
    THEN [p EXCEPT !.current_notes_draw[1].color = @ + 1]
    ELSE p

\* lines 129-130
draw_note_color(p) ==
    IF p.current_notes_draw[1].cls = "Drumroll"
    THEN [p EXCEPT !.current_notes_draw[1].color =
                       IF @ + 1 < 255 THEN @ + 1 ELSE 255]
    ELSE p

\* lines 132-136
draw_note_retire(p, t) ==
    LET first == p.current_notes_draw[1]
        note == IF IsHeadType(first.type) /\ Len(p.current_notes_draw) > 1
                THEN p.current_notes_draw[2]
                ELSE first
    IN  IF RLt(get_position_x(note, t), RInt(JUDGE_X))
        THEN [p EXCEPT !.current_notes_draw = Tail(@)]
        ELSE p

\* lines 111-136
draw_note_manager(p, t) ==
    LET popped == draw_note_pop(p, t)
    IN  IF popped.raised # "" \/ popped.current_notes_draw = <<>>
        THEN popped
        ELSE draw_note_retire(draw_note_color(popped), t)

\* the charts: one bar of note cells, alone or after one directive
DrawChars == {"1", "5", "7", "8", "9"}
DrawDirectives == {Scroll(0), Scroll(-1), Measure(0, 4)}
DrawBpms == {24}
DrawCharts ==
    {<< <<Cells(s)>> >> : s \in CellStrings(DrawChars, MaxDrawCells)}
    \cup {<< <<d, Cells(s)>> >> : d \in DrawDirectives,
                                  s \in CellStrings(DrawChars, MaxDrawCells)}

\* a chart the parser accepts, parsed, in the hands of a new Player2
InitDraw ==
    /\ metadata \in [bpm : DrawBpms, balloon : {<<>>}]
    /\ notes \in DrawCharts
    /\ pc = "idle"
    /\ bar_no = Len(notes)
    /\ \E st \in {ParseBars(WithCursor(InitFrame(RInt(0)), RInt(0)), notes)} :
          /\ st.raised = ""
          /\ frame = Locals(st)
          /\ current_ms = st.current_ms
          /\ results = <<NoteListOf(st)>>
          /\ player = NewDrawPlayer(NoteListOf(st))
    /\ last = <<>>
    /\ ms_from_start = RInt(DrawStartMs)
    /\ screen = <<>>

\* one frame: the time grows (up to DrawEndMs), then the two managers run;
\* a frame that raised ends the game
DrawFrame ==
    /\ pc = "idle"
    /\ player.raised = ""
    /\ \E t \in {IF RLt(ms_from_start, RInt(DrawEndMs))
                 THEN RAdd(ms_from_start, RInt(DrawFrameMs))
                 ELSE ms_from_start} :
       \E with_bar \in {bar_manager(player, t)} :
       \E with_note \in {draw_note_manager(with_bar, t)} :
          /\ ms_from_start' = t
          /\ player' = with_note
    /\ UNCHANGED <<metadata, notes, current_ms, frame, pc, bar_no, results, last, screen>>

NextDraw == DrawFrame

SpecDraw == InitDraw /\ [][NextDraw]_vars

\* frames keep coming
SpecDrawFair == SpecDraw /\ WF_vars(NextDraw)

(***************************************************************************)
(* Definitions of the draw properties.                                     *)
(***************************************************************************)
\* the indexes of the notes of a sequence
Indexes(seq) == {seq[k].index : k \in DOMAIN seq}

\* the notes of the chart, as the parser built them
ChartNotes == results[1].draw_notes
ChartIndexes == 0..(MaxDrawCells - 1)
InChart(i) == i \in Indexes(ChartNotes)

Queued(i) == i \in Indexes(player.draw_note_list)
Active(i) == i \in Indexes(player.current_notes_draw)

\* the TAIL a head is paired with: the first TAIL the chart has after it
HasPairedTail(h) ==
    \E k \in DOMAIN ChartNotes :
        ChartNotes[k].type = NoteType.TAIL /\ ChartNotes[k].index > h.index
PairedTail(h) ==
    ChartNotes[CHOOSE k \in DOMAIN ChartNotes :
        /\ ChartNotes[k].type = NoteType.TAIL
        /\ ChartNotes[k].index > h.index
        /\ \A j \in DOMAIN ChartNotes :
              (ChartNotes[j].type = NoteType.TAIL /\ ChartNotes[j].index > h.index)
                  => ChartNotes[j].index >= ChartNotes[k].index]

\* the heads of the chart
ChartHeads == {n \in Range(ChartNotes) : IsHeadType(n.type)}

\* the lookahead of lines 108 and 113
LookaheadMs == 10000

(***************************************************************************)
(* C16: a note that is not a TAIL is in current_notes_draw, and a bar line *)
(* in current_bars, only at times current_ms >= hit_ms - 10000.            *)
(***************************************************************************)
C16_Lookahead ==
    /\ \A n \in Range(player.current_notes_draw) :
          n.type # NoteType.TAIL
              => RLe(RSub(n.hit_ms, RInt(LookaheadMs)), ms_from_start)
    /\ \A b \in Range(player.current_bars) :
          RLe(RSub(b.hit_ms, RInt(LookaheadMs)), ms_from_start)
    /\ \A i \in player.entered :
          \A n \in Range(ChartNotes) :
              (n.index = i /\ n.type # NoteType.TAIL)
                  => RLe(RSub(n.hit_ms, RInt(LookaheadMs)), ms_from_start)

\* a note and a bar line were moved in the first frame of their lookahead,
\* and the next note is kept waiting
C16_Witness ==
    /\ player.current_bars # <<>>
    /\ player.draw_note_list # <<>>
    /\ RLt(ms_from_start, RSub(Head(player.draw_note_list).hit_ms, RInt(LookaheadMs)))
    /\ \E n \in Range(player.current_notes_draw) :
          /\ n.type # NoteType.TAIL
          /\ ms_from_start = RSub(n.hit_ms, RInt(LookaheadMs))

(***************************************************************************)
(* C17: when a head (ROLL_HEAD, ROLL_HEAD_L, BALLOON_HEAD or KUSUDAMA)     *)
(* leaves draw_note_list in a frame, its paired TAIL is out of             *)
(* draw_note_list and in current_notes_draw after the frame, and no head   *)
(* is active without its TAIL.  A KUSUDAMA refutes it.                     *)
(***************************************************************************)
C17_TailWithHead ==
    /\ [][\A h \in ChartHeads :
            (Queued(h.index) /\ ~Queued(h.index)' /\ HasPairedTail(h)
             /\ player'.raised = "")
                => /\ ~Queued(PairedTail(h).index)'
                   /\ (Active(PairedTail(h).index))' ]_vars
    /\ [](\A h \in ChartHeads :
            (Active(h.index) /\ HasPairedTail(h)) => Active(PairedTail(h).index))

(***************************************************************************)
(* C18: current_notes_draw is strictly ascending in index (so it holds no  *)
(* note twice).  A TAIL at the hit_ms of a note before it refutes it.      *)
(***************************************************************************)
C18_AscendingIndex ==
    \A k \in 1..(Len(player.current_notes_draw) - 1) :
        player.current_notes_draw[k].index < player.current_notes_draw[k + 1].index

(***************************************************************************)
(* C19: a head leaves current_notes_draw only in a frame whose current_ms  *)
(* is past the hit_ms of its paired TAIL.  A note between the head and     *)
(* the TAIL refutes it.                                                    *)
(***************************************************************************)
C19_HeadOutlivesTail ==
    [][\A h \in ChartHeads :
          (/\ Active(h.index) \/ Queued(h.index)
           /\ h.index \in player'.entered
           /\ ~Active(h.index)'
           /\ player'.raised = ""
           /\ HasPairedTail(h))
              => RLt(PairedTail(h).hit_ms, ms_from_start')]_vars

\* every note of the chart was put into the active set and is out of it
AllRetired ==
    \A i \in ChartIndexes : InChart(i) => (i \in player.entered /\ ~Active(i))

\* a note that was active and left is not active again, a note that was put
\* into the active set is not in the queue again
NeverBack ==
    \A i \in ChartIndexes :
        /\ (i \in player.entered /\ ~Active(i)) => (~Active(i))'
        /\ i \in player.entered => (~Queued(i))'

(***************************************************************************)
(* C20: as the frames go on, every note of the chart is put into           *)
(* current_notes_draw at some time and is out of it for good at some later *)
(* time, and a note that left does not come back.  A note under #SCROLL 0  *)
(* refutes it.                                                             *)
(***************************************************************************)
C20_Lifecycle ==
    /\ <>[]AllRetired
    /\ [][NeverBack]_vars

(***************************************************************************)
(* libs/screen.py (not part of the sources at hand), as its unit tests     *)
(* (test/libs/test_screen.py) and its subclass SettingsScreen              *)
(* (scenes/settings.py) show it: a Screen has a name and a flag            *)
(* screen_init; update() runs _do_screen_start, which calls                *)
(* on_screen_start once while the flag is down; on_screen_end(next)        *)
(* unloads, lowers the flag and returns next.  The record keeps count of   *)
(* the loads and unloads made (loaded: since the last on_screen_end).      *)
(***************************************************************************)
ScreenKinds == {"Screen", "SettingsScreen"}
NextScreens == {"next", "ENTRY"}
\* the boxes of the settings template; BoxManager starts at box 3
NumBoxes == 5
Inputs == {"none", "l_kat", "r_kat", "don"}

\* Screen(name) and, for a SettingsScreen, the fields on_screen_start sets
NewScreen(kind, exit_box) ==
    [kind |-> kind, screen_init |-> FALSE,
     loaded |-> 0, load_calls |-> 0, unload_calls |-> 0,
     updates |-> 0, cycles |-> 0,
     exit_box |-> exit_box, selected_box_index |-> 3, box_selected |-> FALSE,
     op |-> "init", ret |-> "None"]

\* Screen.on_screen_start: tex.load_screen_textures, audio.load_screen_sounds;
\* SettingsScreen.on_screen_start builds a new BoxManager
on_screen_start(scr) ==
    [scr EXCEPT !.loaded = @ + 1, !.load_calls = @ + 1,
                !.selected_box_index = 3, !.box_selected = FALSE]

\* a wrong start: the flag is not looked at
do_screen_start_always(scr) == [on_screen_start(scr) EXCEPT !.screen_init = TRUE]

\* Screen._do_screen_start
do_screen_start(scr) ==
    IF ~scr.screen_init
    THEN [on_screen_start(scr) EXCEPT !.screen_init = TRUE]
    ELSE scr

\* Screen.on_screen_end(next_screen); SettingsScreen.on_screen_end saves the
\* configuration and calls it (lines 462-471)
on_screen_end(scr, next_screen) ==
    [scr EXCEPT !.screen_init = FALSE, !.unload_calls = @ + 1, !.loaded = 0,
                !.cycles = @ + 1, !.updates = 0,
                !.op = "on_screen_end", !.ret = next_screen]

\* BoxManager.move_left / move_right (lines 407-433)
move_box(scr, step, moved, stays_in_box) ==
    IF scr.box_selected
    THEN IF step < 0 THEN [scr EXCEPT !.box_selected = stays_in_box] ELSE scr
    ELSE IF moved
         THEN [scr EXCEPT !.selected_box_index = (@ + step) % NumBoxes]
         ELSE scr

\* BoxManager.select_box (lines 435-443): "exit" or None
select_box(scr) ==
    IF scr.selected_box_index = scr.exit_box
    THEN [scr |-> scr, box_name |-> "exit"]
    ELSE [scr |-> [scr EXCEPT !.box_selected = TRUE], box_name |-> "None"]

\* SettingsScreen.handle_input (lines 473-484)
handle_input(scr, input, moved, stays_in_box) ==
    IF input = "l_kat" THEN move_box(scr, 0 - 1, moved, stays_in_box)
    ELSE IF input = "r_kat" THEN move_box(scr, 1, moved, stays_in_box)
    ELSE IF input = "don"
         THEN IF select_box(scr).box_name = "exit"
              THEN on_screen_end(select_box(scr).scr, "ENTRY")
              ELSE select_box(scr).scr
    ELSE scr

\* Screen.update, and SettingsScreen.update (lines 486-492)
screen_update(scr, input, moved, stays_in_box) ==
    LET started == [do_screen_start(scr) EXCEPT !.updates = @ + 1,
                                                !.op = "update", !.ret = "None"]
    IN  IF scr.kind = "SettingsScreen"
        THEN handle_input(started, input, moved, stays_in_box)
        ELSE started

InitScreen ==
    /\ metadata = <<>>
    /\ notes = <<>>
    /\ current_ms = RInt(0)
    /\ frame = <<>>
    /\ pc = "idle"
    /\ bar_no = 0
    /\ results = <<>>
    /\ player = <<>>
    /\ last = <<>>
    /\ ms_from_start = RInt(0)
    /\ \E kind \in ScreenKinds : \E exit_box \in 0..(NumBoxes - 1) :
          screen = NewScreen(kind, IF kind = "Screen" THEN 0 ELSE exit_box)

\* the main loop calls update() on the current screen
ScreenUpdate ==
    /\ screen.updates < MaxUpdates
    /\ screen.cycles < MaxCycles
    /\ \E input \in Inputs : \E moved \in BOOLEAN : \E stays_in_box \in BOOLEAN :
          /\ screen.kind = "Screen" => input = "none"
          /\ screen' = screen_update(screen, input, moved, stays_in_box)
    /\ UNCHANGED <<metadata, notes, current_ms, frame, pc, bar_no, results, player,
                   last, ms_from_start>>

\* on_screen_end called on the screen from outside an update
ScreenEnd ==
    /\ screen.cycles < MaxCycles
    /\ \E next_screen \in NextScreens :
          screen' = on_screen_end(screen, next_screen)
    /\ UNCHANGED <<metadata, notes, current_ms, frame, pc, bar_no, results, player,
                   last, ms_from_start>>

NextScreen == ScreenUpdate \/ ScreenEnd

SpecScreen == InitScreen /\ [][NextScreen]_vars

(***************************************************************************)
(* C21: between two on_screen_end() calls the textures and sounds of a     *)
(* screen are loaded at most once, and are loaded whenever screen_init is  *)
(* up; an update() on a screen whose flag is down loads them once and      *)
(* raises the flag (a SettingsScreen may end itself in the same update),   *)
(* an update() on a screen whose flag is up loads nothing, and             *)
(* on_screen_end(next) lowers the flag and returns next.                   *)
(***************************************************************************)
C21_LoadOnce ==
    /\ [](/\ screen.loaded <= 1
          /\ screen.screen_init => screen.loaded = 1)
    /\ [][/\ (screen'.op = "update" /\ ~screen.screen_init)
                => /\ screen'.load_calls = screen.load_calls + 1
                   /\ screen'.screen_init /\ screen'.loaded = 1
          /\ (screen'.op = "update" /\ screen.screen_init)
                => /\ screen'.load_calls = screen.load_calls
                   /\ screen'.screen_init
          /\ screen'.cycles # screen.cycles
                => /\ ~screen'.screen_init
                   /\ screen'.ret \in NextScreens
                   /\ screen'.op = "on_screen_end"
                   /\ screen'.cycles = screen.cycles + 1
                   /\ screen'.unload_calls = screen.unload_calls + 1 ]_vars

\* a screen in its second cycle, loaded again by the first update of the
\* cycle and updated once more
C21_Witness ==
    /\ screen.cycles = 1
    /\ screen.updates = 2
    /\ screen.screen_init
    /\ screen.load_calls = 2
    /\ screen.unload_calls = 1

(***************************************************************************)
(* Definitions of the properties of one parsed bar.                        *)
(***************************************************************************)
\* the bar a step has parsed, and what the step has appended
ParsedBar == notes'[Len(notes')]
NewBarLines == SubSeq(frame'.bars, Len(frame.bars) + 1, Len(frame'.bars))
NewPlayNotes == SubSeq(frame'.play_notes, Len(frame.play_notes) + 1, Len(frame'.play_notes))
NewDrawNotes == SubSeq(frame'.draw_notes, Len(frame.draw_notes) + 1, Len(frame'.draw_notes))
\* what was there before the step is still there, unchanged
EarlierKept ==
    /\ SubSeq(frame'.bars, 1, Len(frame.bars)) = frame.bars
    /\ SubSeq(frame'.play_notes, 1, Len(frame.play_notes)) = frame.play_notes
    /\ SubSeq(frame'.draw_notes, 1, Len(frame.draw_notes)) = frame.draw_notes

\* the places of the note-cell parts of a bar, in order
CellPartsOf(bar) ==
    LET IsCells(k) == ~IsDirective(bar[k])
    IN  SelectSeq([k \in 1..Len(bar) |-> k], IsCells)

\* the places of the parts of a kind
PartsOfKind(bar, kind) == {k \in 1..Len(bar) : bar[k].k = kind}

(***************************************************************************)
(* C22: a parsed bar adds one bar line per note-cell part; the first has   *)
(* display = true and lies at the cursor the bar started with, which is    *)
(* the cursor of its first cell; every further one has display = false.    *)
(***************************************************************************)
C22_OneDisplayedBarLine ==
    [][BarStep =>
        /\ Len(NewBarLines) = Len(CellPartsOf(ParsedBar))
        /\ Len(NewBarLines) >= 1
        /\ NewBarLines[1].display = TRUE
        /\ NewBarLines[1].hit_ms = current_ms
        /\ \A j \in 2..Len(NewBarLines) : NewBarLines[j].display = FALSE
        /\ SubSeq(frame'.bars, 1, Len(frame.bars)) = frame.bars
    ]_vars

\* the bar "1", #SCROLL 2, "2" has been parsed: two bar lines, the second hidden
C22_Witness ==
    /\ pc = "parsing"
    /\ notes = <<<<Cells(<<"1">>), Scroll(2), Cells(<<"2">>)>>>>
    /\ bar_no = 1
    /\ Len(frame.bars) = 2
    /\ frame.bars[1].display /\ ~frame.bars[2].display
    /\ frame.bars[1].hit_ms = RInt(0) /\ frame.bars[2].hit_ms = RInt(1000)

(***************************************************************************)
(* C23: a bar without note cells moves the cursor by 240000 * (a/b) / bpm  *)
(* of the time signature and BPM in force, adds no note to play_notes or   *)
(* draw_notes and leaves the note index where it is.                       *)
(***************************************************************************)
C23_EmptyBar ==
    [][(BarStep /\ SumLen(ParsedBar) = 0) =>
        /\ current_ms' = RAdd(current_ms,
                              RDiv(RMul(RInt(240000), frame'.time_signature), frame'.bpm))
        /\ frame'.play_notes = frame.play_notes
        /\ frame'.draw_notes = frame.draw_notes
        /\ frame'.index = frame.index
    ]_vars

\* the bar "1" and an empty bar in 3/4 have been parsed: the cursor went from
\* 2000 to 3500 and there is one note
C23_Witness ==
    /\ pc = "parsing"
    /\ notes = <<<<Cells(<<"1">>)>>, <<Measure(3, 4), Cells(<<>>)>>>>
    /\ bar_no = 2
    /\ current_ms = RInt(3500)
    /\ Len(frame.play_notes) = 1 /\ Len(frame.draw_notes) = 1
    /\ frame.index = 1

(***************************************************************************)
(* C24: a bar with one #BPMCHANGE v and no #MEASURE sets the running BPM   *)
(* to v and adds one timeline event (cursor, bpm = v); the notes and bar   *)
(* lines of the cells before the directive carry the BPM of before and     *)
(* are spaced with it, those after it carry v and are spaced with v; what  *)
(* was built before the bar is unchanged.  A bar without #BPMCHANGE        *)
(* stamps the running BPM and leaves it and the timeline alone.            *)
(***************************************************************************)
C24_FixedSpeedBpmChange ==
    [][BarStep =>
        LET bar == ParsedBar
            n == SumLen(bar)
            changes == PartsOfKind(bar, "#BPMCHANGE")
        IN  /\ EarlierKept
            /\ changes = {} =>
                  /\ frame'.bpm = frame.bpm
                  /\ frame'.timeline = frame.timeline
                  /\ \A j \in 1..Len(NewPlayNotes) : NewPlayNotes[j].bpm = frame.bpm
                  /\ \A j \in 1..Len(NewBarLines) : NewBarLines[j].bpm = frame.bpm
            /\ (Cardinality(changes) = 1 /\ PartsOfKind(bar, "#MEASURE") = {}) =>
                  LET i == CHOOSE k \in changes : TRUE
                      v == RInt(bar[i].v)
                      c1 == SumLen(SubSeq(bar, 1, i - 1))
                      old == RDiv(RMul(RInt(240000), frame.time_signature), frame.bpm)
                      new == RDiv(RMul(RInt(240000), frame.time_signature), v)
                      at_change == IF n = 0 THEN current_ms
                                   ELSE RAdd(current_ms, RDiv(RMul(RInt(c1), old), RInt(n)))
                      at == NotePositions(BarChars(bar))
                      parts == CellPartsOf(bar)
                      tl == frame'.timeline
                  IN  /\ frame'.bpm = v
                      /\ \E k \in 1..Len(tl) :
                            /\ tl[k] = [hit_ms |-> at_change, bpm |-> v]
                            /\ SubSeq(tl, 1, k - 1) \o SubSeq(tl, k + 1, Len(tl))
                                   = frame.timeline
                      /\ current_ms' = IF n = 0 THEN RAdd(current_ms, new)
                                       ELSE RAdd(at_change,
                                                 RDiv(RMul(RInt(n - c1), new), RInt(n)))
                      /\ Len(NewPlayNotes) = Len(at)
                      /\ \A j \in 1..Len(NewPlayNotes) :
                            IF at[j] <= c1
                            THEN /\ NewPlayNotes[j].bpm = frame.bpm
                                 /\ NewPlayNotes[j].hit_ms =
                                        RAdd(current_ms,
                                             RDiv(RMul(RInt(at[j] - 1), old), RInt(n)))
                            ELSE /\ NewPlayNotes[j].bpm = v
                                 /\ NewPlayNotes[j].hit_ms =
                                        RAdd(at_change,
                                             RDiv(RMul(RInt(at[j] - 1 - c1), new), RInt(n)))
                      /\ Len(NewBarLines) = Len(parts)
                      /\ \A j \in 1..Len(NewBarLines) :
                            NewBarLines[j].bpm = (IF parts[j] < i THEN frame.bpm ELSE v)
    ]_vars

\* the bar "1", #BPMCHANGE 240, "2" has been parsed at 120 BPM: the first note
\* keeps 120, the second lies 1000 ms later and carries 240, as the event
\* does, and the second half of the bar took 500 ms
C24_Witness ==
    /\ pc = "parsing"
    /\ notes = <<<<Cells(<<"1">>), BpmChange(240), Cells(<<"2">>)>>>>
    /\ bar_no = 1
    /\ frame.bpm = RInt(240)
    /\ frame.timeline = <<[hit_ms |-> RInt(0), bpm |-> RInt(120)],
                          [hit_ms |-> RInt(1000), bpm |-> RInt(240)]>>
    /\ frame.play_notes[1].bpm = RInt(120) /\ frame.play_notes[1].hit_ms = RInt(0)
    /\ frame.play_notes[2].bpm = RInt(240) /\ frame.play_notes[2].hit_ms = RInt(1000)
    /\ current_ms = RInt(1500)

(***************************************************************************)
(* Charts that name their scroll family: the first part of the first bar   *)
(* may be #BMSCROLL or #HBSCROLL.  notes_to_position has no branch for     *)
(* these parts: neither holds '#MEASURE', '#SCROLL' or '#BPMCHANGE', so    *)
(* line 203 skips them and scroll_type keeps the value of line 159.        *)
(***************************************************************************)
ScrollFamily(name) == [k |-> name]
MultiplierFamilies == {"#BMSCROLL", "#HBSCROLL"}
FamilyDirectives == {BpmChange(240), BpmChange(60), Scroll(2)}
FamilyChars == {"1", "2"}

RECURSIVE FamilyDirSeqs(_)
FamilyDirSeqs(d) ==
    {<<>>} \cup (IF d > 0
                 THEN UNION {{<<dir>> \o r : r \in FamilyDirSeqs(d - 1)} :
                             dir \in FamilyDirectives}
                 ELSE {})

\* the bars of such a chart: directives, then one note-cell string
FamilyBars(first) ==
    LET family == IF first
                  THEN {<<>>} \cup {<<ScrollFamily(f)>> : f \in MultiplierFamilies}
                  ELSE {<<>>}
    IN  UNION {UNION {{fam \o ds \o <<Cells(s)>> :
                         s \in CellStrings(FamilyChars, MaxCells) \cup {<<>>}} :
                      ds \in FamilyDirSeqs(MaxFamilyDirs)} :
               fam \in family}

\* the scroll family a chart names
DeclaredFamily(chart) ==
    IF chart # <<>> /\ Head(chart)[1].k \in MultiplierFamilies
    THEN Head(chart)[1].k
    ELSE "#NMSCROLL"

\* one iteration of the loop over the bars, on a bar of such a chart
ParseFamilyBar ==
    /\ pc = "parsing"
    /\ results = <<>>
    /\ bar_no = Len(notes)
    /\ Len(notes) < MaxBars
    /\ \E bar \in FamilyBars(notes = <<>>) :
          /\ notes' = Append(notes, bar)
          /\ DoBar(bar)
    /\ UNCHANGED <<metadata, results, player, last, ms_from_start, screen>>

NextFamily ==
    \/ Call
    \/ ParseFamilyBar
    \/ Return

SpecFamily == Init /\ [][NextFamily]_vars

\* the values of the #BPMCHANGE parts of a bar, in order
RECURSIVE BpmChangesOf(_)
BpmChangesOf(bar) ==
    IF bar = <<>> THEN <<>>
    ELSE (IF Head(bar).k = "#BPMCHANGE" THEN <<RInt(Head(bar).v)>> ELSE <<>>)
         \o BpmChangesOf(Tail(bar))

\* the values of the #SCROLL parts of a bar, in order
RECURSIVE ScrollsOf(_)
ScrollsOf(bar) ==
    IF bar = <<>> THEN <<>>
    ELSE (IF Head(bar).k = "#SCROLL" THEN <<RInt(Head(bar).x)>> ELSE <<>>)
         \o ScrollsOf(Tail(bar))

(***************************************************************************)
(* C25: every timeline event carries either an absolute bpm or a relative  *)
(* multiplier, never both; in a chart of the BMSCROLL or HBSCROLL family   *)
(* a bar with #BPMCHANGE parts leaves the running BPM as it is and adds    *)
(* one relative event per part, at the cursor, whose multiplier is the     *)
(* part's value divided by the previous #BPMCHANGE value (by the initial   *)
(* BPM for the first).                                                     *)
(***************************************************************************)
C25_RelativeBpmChange ==
    /\ [](pc = "parsing" =>
             \A k \in 1..Len(frame.timeline) :
                ("bpm" \in DOMAIN frame.timeline[k])
                    # ("bpmchange" \in DOMAIN frame.timeline[k]))
    /\ [][(/\ BarStep
           /\ DeclaredFamily(notes') \in MultiplierFamilies
           /\ BpmChangesOf(ParsedBar) # <<>>) =>
             LET vs == BpmChangesOf(ParsedBar)
             IN  /\ frame'.bpm = frame.bpm
                 /\ Len(frame'.timeline) = Len(frame.timeline) + Len(vs)
                 /\ \A j \in 1..Len(vs) :
                       \E k \in 1..Len(frame'.timeline) :
                          frame'.timeline[k] =
                             [hit_ms |-> current_ms,
                              bpmchange |-> RDiv(vs[j], IF j = 1
                                                        THEN frame.bpmchange_last_bpm
                                                        ELSE vs[j - 1])]
      ]_vars

(***************************************************************************)
(* C26: in a chart of a family whose #BPMCHANGE gives relative events      *)
(* (BMSCROLL, HBSCROLL) a bar with #SCROLL parts leaves scroll_x and       *)
(* scroll_y as they are; in any other chart the last plain #SCROLL v of    *)
(* the bar leaves scroll_x = v and scroll_y = 0.                           *)
(***************************************************************************)
C26_ScrollIgnored ==
    [][(BarStep /\ ScrollsOf(ParsedBar) # <<>>) =>
          LET vs == ScrollsOf(ParsedBar)
          IN  IF DeclaredFamily(notes') \in MultiplierFamilies
              THEN /\ frame'.scroll_x_modifier = frame.scroll_x_modifier
                   /\ frame'.scroll_y_modifier = frame.scroll_y_modifier
              ELSE /\ frame'.scroll_x_modifier = vs[Len(vs)]
                   /\ frame'.scroll_y_modifier = RInt(0)
    ]_vars

C28_BarLineRetired ==
    \A i \in 1..Len(player.current_bars) :
        player.raised = "" =>
        ~RLt(get_position_x(player.current_bars[i],
                            RSub(ms_from_start, RInt(DrawFrameMs))),
             RInt(JUDGE_X))

(***************************************************************************)
(* The comparison of update_background (ai_battle/game.py, lines 154-157)  *)
(* as a function of the lane queues it is given: deque == deque compares   *)
(* the lengths and then the elements in order with Note.__eq__.  The       *)
(* queues are those reset_chart makes from parsed one-bar charts.          *)
(***************************************************************************)
SyncChars == {"1", "2", "3"}
SyncCharts == {<< <<Cells(s)>> >> : s \in CellStrings(SyncChars, MaxSyncCells)}

\* deque.__eq__
deque_eq(a, b) ==
    /\ Len(a) = Len(b)
    /\ \A i \in 1..Len(a) : NoteEq(a[i], b[i])

\* the don and kat queues of a player made on a chart
SyncPlayer(chart) ==
    LET nl == NoteListOf(ParseBars(WithCursor(InitFrame(RInt(0)), RInt(0)), chart))
    IN  [don_notes |-> don_notes_of(nl), kat_notes |-> kat_notes_of(nl)]

InitSync ==
    /\ metadata \in [bpm : InitialBpms, balloon : {<<>>}]
    /\ notes = <<>>
    /\ current_ms = RInt(0)
    /\ frame = <<>>
    /\ pc = "idle"
    /\ bar_no = 0
    /\ results = <<>>
    /\ last = <<>>
    /\ ms_from_start = RInt(0)
    /\ screen = <<>>
    /\ \E c1 \in SyncCharts : \E c2 \in SyncCharts :
          player = [player_1 |-> SyncPlayer(c1), player_2 |-> SyncPlayer(c2)]

\* lines 155-156: whether the values of the background are updated
update_background ==
    /\ last = <<>>
    /\ last' = [op |-> "update_background",
                updated |-> /\ deque_eq(player.player_1.don_notes,
                                        player.player_2.don_notes)
                            /\ deque_eq(player.player_1.kat_notes,
                                        player.player_2.kat_notes)]
    /\ UNCHANGED <<metadata, notes, current_ms, frame, pc, bar_no, results, player,
                   ms_from_start, screen>>

NextSync == update_background

SpecSync == InitSync /\ [][NextSync]_vars

\* queues of the same length whose notes agree, place by place, in kind and hit_ms
SameKindAndTime(a, b) ==
    /\ Len(a) = Len(b)
    /\ \A i \in 1..Len(a) : a[i].type = b[i].type /\ a[i].hit_ms = b[i].hit_ms

AdjustCharts == {<< <<Cells(<<"1", "1", "2", "0">>)>> >>}
AdjustTimes == {0, 2500, 5000}
\* good_percentage and ok_percentage: those of __init__ (lines 243-244) and
\* those update_scoreboards computes from a section of the human player
AdjustPercentages ==
    {AIPercentages}
    \cup {[good_percentage |-> RNorm(c[1], 2), ok_percentage |-> RNorm(c[2], 2)] :
            c \in {d \in (0..2) \X (0..2) : d[1] + d[2] <= 2}}

LoopEntry(p, lane) ==
    [lane |-> lane, iters |-> 0, len |-> Len(LaneQueue(p, lane)), result |-> "None"]

InitAdjust ==
    /\ metadata \in [bpm : BattleBpms, balloon : {<<>>}]
    /\ notes \in AdjustCharts
    /\ current_ms = RInt(0)
    /\ frame = <<>>
    /\ bar_no = Len(notes)
    /\ results = <<>>
    /\ screen = <<>>
    /\ ms_from_start \in {RInt(t) : t \in AdjustTimes}
    /\ pc = "adjust_don"
    /\ \E pct \in AdjustPercentages :
       \E nl \in {NoteListOf(ParseBars(WithCursor(InitFrame(RInt(0)), RInt(0)), notes))} :
          /\ player = [NewBattlePlayer(nl, Difficulty.ONI, TRUE)
                          EXCEPT !.good_percentage = pct.good_percentage,
                                 !.ok_percentage = pct.ok_percentage]
          /\ last = LoopEntry(player, "don")

\* lines 297-316: one iteration of the loop
adjust_timing_iteration(lane) ==
    /\ pc = "adjust_" \o lane
    /\ AdjustGuard(player, lane)
    /\ last.iters < MaxIters
    /\ \E timing_offset \in TimingOffsets(player) :
       \E judged \in {roll_check_note(player, lane,
                                      RAdd(Head(LaneQueue(player, lane)).hit_ms,
                                           timing_offset))} :
          /\ player' = judged.player
          /\ last' = [last EXCEPT !.iters = @ + 1, !.result = judged.result]
    /\ UNCHANGED <<metadata, notes, current_ms, frame, pc, bar_no, results,
                   ms_from_start, screen>>

\* line 297: the loop is left
adjust_timing_return(lane) ==
    /\ pc = "adjust_" \o lane
    /\ ~AdjustGuard(player, lane)
    /\ pc' = IF lane = "don" THEN "adjust_kat" ELSE "idle"
    /\ last' = IF lane = "don" THEN LoopEntry(player, "kat") ELSE last
    /\ UNCHANGED <<metadata, notes, current_ms, frame, bar_no, results, player,
                   ms_from_start, screen>>

NextAdjust ==
    \/ \E lane \in Lanes : adjust_timing_iteration(lane)
    \/ \E lane \in Lanes : adjust_timing_return(lane)

SpecAdjust == InitAdjust /\ [][NextAdjust]_vars

(***************************************************************************)
(* C30: every iteration of the loop of _adjust_timing ends in a GOOD, OK   *)
(* or BAD judgment that removes the head of the lane queue, so a call      *)
(* makes at most as many iterations as the queue had notes when the call   *)
(* began.                                                                  *)
(***************************************************************************)
C30_AdjustTerminates ==
    /\ last.iters <= last.len
    /\ last.iters > 0 => last.result \in {Judgment.GOOD, Judgment.OK, Judgment.BAD}
    /\ Len(LaneQueue(player, last.lane)) = last.len - last.iters

(***************************************************************************)
(* AI battles on charts of any length, with a human player who may press   *)
(* a don key and a kat key within one frame: Player.update (scenes/game.py)*)
(* judges every key pressed in the frame, each by one call of check_note.  *)
(***************************************************************************)
\* the chart of the battles above, a chart of four notes, and at 2400 BPM
\* (bars of 100 ms) a chart of five notes that lie within 200 ms
ScoreCases ==
    {[bpm |-> b, chart |-> c] : b \in BattleBpms, c \in BattleCharts}
    \cup {[bpm |-> 24, chart |-> << <<Cells(<<"1", "2", "1", "1">>)>> >>],
          [bpm |-> 2400,
           chart |-> << <<Cells(<<"1", "2">>)>>, <<Cells(<<"1", "1", "2">>)>> >>]}

InitScore ==
    /\ \E c \in ScoreCases :
          /\ metadata = [bpm |-> c.bpm, balloon |-> <<>>]
          /\ notes = c.chart
    /\ pc = "idle"
    /\ bar_no = Len(notes)
    /\ frame = <<>>
    /\ current_ms = RInt(0)
    /\ results = <<>>
    /\ player = <<>>
    /\ last = <<>>
    /\ ms_from_start = RInt(0)
    /\ screen = FreshScreen(0, notes, 0)

\* lines 115-129, with a don key and a kat key pressed in the frame
BattleBeginBoth ==
    /\ screen.pc = "frame"
    /\ screen.current_time < MaxBattleFrames * BattleFrameMs
    /\ \E now \in {screen.current_time + BattleFrameMs} :
       \E t \in {RInt(now - screen.start_ms)} :
       \E p \in {note_manager(screen.player_1, t)} :
       \E don \in {roll_check_note(p, "don", t).player} :
          /\ ms_from_start' = t
          /\ screen' = [screen EXCEPT
                 !.current_time = now,
                 !.song_started = TRUE,
                 !.player_1 = roll_check_note(don, "kat", t).player,
                 !.pc = "player_2"]
    /\ UNCHANGED <<metadata, notes, current_ms, frame, pc, bar_no, results, player, last>>

NextScore ==
    \/ \E key \in Keys : BattleBegin(key)
    \/ BattleBeginBoth
    \/ BattleAutoplay
    \/ \E lane \in Lanes : adjust_timing(lane)
    \/ \E lane \in Lanes : adjust_timing_exit(lane)
    \/ \E restart_key \in BOOLEAN : BattleEnd(restart_key)

SpecScore == InitScore /\ [][NextScore]_vars

(***************************************************************************)
(* C31: update_scoreboards raises nothing, whatever the number of don and  *)
(* kat notes of the chart.                                                 *)
(***************************************************************************)
C31_ScoreboardsNeverRaise == screen.raised = ""

(***************************************************************************)
(* C32: on a chart of at least 5 don and kat notes, at the end of every    *)
(* frame the human player's good_count + ok_count + bad_count is less      *)
(* than total_notes // 5.                                                  *)
(***************************************************************************)
C32_SectionCounters ==
    (screen.pc = "frame" /\ screen.raised = "" /\ screen.total_notes >= 5) =>
        screen.player_1.good_count + screen.player_1.ok_count
            + screen.player_1.bad_count < screen.total_notes \div 5

(***************************************************************************)
(* AIBackground (ai_battle/game.py, lines 412-435) and the calls           *)
(* update_background makes on it (lines 154-157): update_values is called  *)
(* with the (good_count, ok_count) of both players in the frames in which  *)
(* the lane queues of the two players compare equal.                       *)
(***************************************************************************)
multipliers == <<<<5, 3>>, <<5, 3>>, <<3, 2>>, <<3, 1>>>>

Min(a, b) == IF a < b THEN a ELSE b
Max(a, b) == IF a > b THEN a ELSE b

\* AIBackground.__init__(difficulty)
NewAIBackground(difficulty) ==
    [contest_point |-> 10, total_tiles |-> 19, difference |-> 0,
     difficulty |-> Min(difficulty, 3)]

\* a wrong update: the point is not clamped
update_values_unclamped(bg, player_judge, ai_judge) ==
    LET m == multipliers[bg.difficulty + 1]
    IN  [bg EXCEPT !.contest_point =
            ((player_judge[1] * m[1] + player_judge[2] * m[2])
               - (ai_judge[1] * m[1] + ai_judge[2] * m[2])) \div 2 + 10]

\* AIBackground.update_values, lines 430-434
update_values(bg, player_judge, ai_judge) ==
    LET m == multipliers[bg.difficulty + 1]
        player_total == player_judge[1] * m[1] + player_judge[2] * m[2]
        ai_total == ai_judge[1] * m[1] + ai_judge[2] * m[2]
        contest_point == (player_total - ai_total) \div 2 + 10
    IN  [bg EXCEPT !.contest_point = Min(Max(1, contest_point), bg.total_tiles - 1)]

Judges == (0..MaxCount) \X (0..MaxCount)

\* on_screen_start, line 34: the background of the selected difficulty
InitBackground ==
    /\ metadata = <<>>
    /\ notes = <<>>
    /\ current_ms = RInt(0)
    /\ frame = <<>>
    /\ pc = "idle"
    /\ bar_no = 0
    /\ results = <<>>
    /\ player = <<>>
    /\ last = <<>>
    /\ ms_from_start = RInt(0)
    /\ \E difficulty \in {Difficulty[d] : d \in DOMAIN Difficulty} :
          screen = NewAIBackground(difficulty)

\* update_background in a frame in which the queues compare equal
BackgroundUpdateValues ==
    /\ \E player_judge \in Judges : \E ai_judge \in Judges :
          /\ screen' = update_values(screen, player_judge, ai_judge)
          /\ last' = [player_judge |-> player_judge, ai_judge |-> ai_judge]
    /\ UNCHANGED <<metadata, notes, current_ms, frame, pc, bar_no, results, player,
                   ms_from_start>>

NextBackground == BackgroundUpdateValues

SpecBackground == InitBackground /\ [][NextBackground]_vars

(***************************************************************************)
(* C33: contest_point is an integer within 1..total_tiles - 1 = 1..18; it  *)
(* is 10 before the first update_values call and whenever the last call    *)
(* was given the same good and ok counts for both players.                 *)
(***************************************************************************)
C33_ContestPoint ==
    /\ screen.contest_point \in 1..18
    /\ screen.total_tiles - 1 = 18
    /\ last = <<>> => screen.contest_point = 10
    /\ (last # <<>> /\ last.player_judge = last.ai_judge) => screen.contest_point = 10

\* update_values was called with equal counts that are not zero: the point is 10
C33_Witness ==
    /\ last # <<>>
    /\ last.player_judge = <<MaxCount, 1>>
    /\ last.ai_judge = <<MaxCount, 1>>
    /\ screen.contest_point = 10

(***************************************************************************)
(* Player2.reset_chart, lines 59-70: what notes_to_position returns (line  *)
(* 265 of tja2.py: the NoteList, and three one-element lists holding that  *)
(* same NoteList as branch_m, branch_e and branch_n) and the count         *)
(* total_notes made of it.                                                 *)
(***************************************************************************)
notes_to_position_return(nl) ==
    [notes |-> nl, branch_m |-> <<nl>>, branch_e |-> <<nl>>, branch_n |-> <<nl>>]

\* len([note for note in play_notes if 0 < note.type < 5])
RECURSIVE CountPlayable(_)
CountPlayable(play_notes) ==
    IF play_notes = <<>> THEN 0
    ELSE (IF 0 < Head(play_notes).type /\ Head(play_notes).type < 5 THEN 1 ELSE 0)
         + CountPlayable(Tail(play_notes))

\* lines 67-69: the loop over the sections of branch_m
RECURSIVE CountSections(_)
CountSections(branch_m) ==
    IF branch_m = <<>> THEN 0
    ELSE CountPlayable(Head(branch_m).play_notes) + CountSections(Tail(branch_m))

\* lines 65-69
total_notes_of(ret) == CountPlayable(ret.notes.play_notes) + CountSections(ret.branch_m)

(***************************************************************************)
(* C34: after reset_chart, total_notes is the number of DON, KAT, DON_L    *)
(* and KAT_L notes of the parsed chart, each counted once.                 *)
(***************************************************************************)
C34_TotalNotes ==
    Returned =>
        total_notes_of(notes_to_position_return(results[1]))
            = Cardinality({i \in 1..Len(results[1].play_notes) :
                             results[1].play_notes[i].type
                                 \in {NoteType.DON, NoteType.KAT,
                                      NoteType.DON_L, NoteType.KAT_L}})

(***************************************************************************)
(* C35: on every chart the parser accepts, draw_note_manager completes     *)
(* every frame without raising, a head without a later TAIL included.      *)
(***************************************************************************)
C35_DrawNeverRaises == player.raised = ""

(***************************************************************************)
(* scenes/settings.py: the settings menu.  The screen record holds the     *)
(* BoxManager (boxes, num_boxes, selected_box_index, box_selected), the    *)
(* configuration global_data.config the option boxes read and write, what  *)
(* on_screen_end saved, and the exception that left update(), if any.      *)
(* A template is a sequence of boxes, each with a name and the types of    *)
(* its options; an option's path is its place <<box, option>>.  The y      *)
(* position of a box is kept as the flag moving (y # target_position).     *)
(***************************************************************************)
MaxValue == 1
MaxString == 1
KeyCodes == 1..2

Templates ==
    LET exit == [name |-> "exit", options |-> <<>>]
        general == [name |-> "general", options |-> <<"bool", "int">>]
        keys == [name |-> "keys", options |-> <<"keybind">>]
        nameplate == [name |-> "nameplate", options |-> <<"string">>]
    IN  {<<exit>>, <<general, exit>>, <<keys, nameplate, exit>>,
         <<general, keys, nameplate, exit>>}

\* the value settings in the configuration file have before the menu opens
DefaultValue(type) ==
    CASE type = "bool" -> FALSE
      [] type = "int" -> 0
      [] type = "keybind" -> 1
      [] OTHER -> <<>>

\* BaseOptionBox.__init__ and the __init__ of its subclasses
NewOptionBox(type, path, config) ==
    [type |-> type, path |-> path, is_highlighted |-> FALSE,
     value |-> config[path],
     string |-> IF type = "string" THEN config[path] ELSE <<>>]

\* Box.__init__
NewBox(box_no, entry, config) ==
    [name |-> entry.name, in_box |-> FALSE, option_index |-> 0, moving |-> FALSE,
     options |-> [j \in 1..Len(entry.options) |->
                     NewOptionBox(entry.options[j], <<box_no, j>>, config)]]

\* BoxManager.__init__, with the configuration of the template's settings
NewBoxManager(template) ==
    LET config == [p \in {<<i, j>> : i \in 1..Len(template), j \in 1..2} |->
                      IF p[2] <= Len(template[p[1]].options)
                      THEN DefaultValue(template[p[1]].options[p[2]])
                      ELSE 0]
    IN  [boxes |-> [i \in 1..Len(template) |-> NewBox(i, template[i], config)],
         num_boxes |-> Len(template),
         selected_box_index |-> 3, box_selected |-> FALSE,
         config |-> config, saved |-> <<>>, ret |-> "None", raised |-> ""]

\* BoolOptionBox / IntOptionBox (no value list) .move_left and .move_right;
\* the other option boxes of the model pass
OptionBox_move(opt, step) ==
    CASE opt.type = "bool" -> [opt EXCEPT !.value = (step > 0)]
      [] opt.type = "int" -> [opt EXCEPT !.value = @ + step]
      [] OTHER -> opt

\* StrOptionBox.update (free text) and KeybindOptionBox.update
OptionBox_update(opt, key, textkey, char) ==
    IF ~opt.is_highlighted THEN opt
    ELSE CASE opt.type = "keybind" ->
                 IF key > 0
                 THEN [opt EXCEPT !.value = key, !.is_highlighted = FALSE]
                 ELSE opt
           [] opt.type = "string" ->
                 LET keyed ==
                         IF textkey = "BACKSPACE"
                         THEN [opt EXCEPT !.string =
                                   IF @ = <<>> THEN <<>> ELSE SubSeq(@, 1, Len(@) - 1)]
                         ELSE IF textkey = "ENTER"
                              THEN [opt EXCEPT !.value = opt.string,
                                               !.is_highlighted = FALSE]
                              ELSE opt
                 IN  IF char THEN [keyed EXCEPT !.string = Append(@, "a")] ELSE keyed
           [] OTHER -> opt

\* Box.update: the move animation may finish, every option is updated
Box_update(box, finished, key, textkey, char) ==
    [box EXCEPT !.moving = @ /\ ~finished,
                !.options = [j \in 1..Len(box.options) |->
                                OptionBox_update(box.options[j], key, textkey, char)]]

\* BoxManager.update
BoxManager_update(bm, finished, key, textkey, char) ==
    [bm EXCEPT !.boxes = [i \in 1..Len(bm.boxes) |->
                             Box_update(bm.boxes[i], finished, key, textkey, char)]]

\* a wrong move_option_left: leaving the box does not lower in_box
Box_move_option_left_stays(box) ==
    IF box.options[box.option_index + 1].is_highlighted
    THEN [box |-> [box EXCEPT !.options[box.option_index + 1] = OptionBox_move(@, 0 - 1)],
          ret |-> TRUE]
    ELSE IF box.option_index = 0
         THEN [box |-> box, ret |-> FALSE]
         ELSE [box |-> [box EXCEPT !.option_index = @ - 1], ret |-> TRUE]

\* Box.move_option_left: the box and the value returned
Box_move_option_left(box) ==
    IF box.options[box.option_index + 1].is_highlighted
    THEN [box |-> [box EXCEPT !.options[box.option_index + 1] = OptionBox_move(@, 0 - 1)],
          ret |-> TRUE]
    ELSE IF box.option_index = 0
         THEN [box |-> [box EXCEPT !.in_box = FALSE], ret |-> FALSE]
         ELSE [box |-> [box EXCEPT !.option_index = @ - 1], ret |-> TRUE]

\* Box.move_option_right
Box_move_option_right(box) ==
    IF box.options[box.option_index + 1].is_highlighted
    THEN [box EXCEPT !.options[box.option_index + 1] = OptionBox_move(@, 1)]
    ELSE [box EXCEPT !.option_index = Min(@ + 1, Len(box.options) - 1)]

\* self.boxes[self.selected_box_index] and self.options[self.option_index]
\* raise IndexError outside the list
BoxIndexError(bm) == bm.selected_box_index >= bm.num_boxes
OptionIndexError(box) == box.option_index >= Len(box.options)

\* BoxManager.move_left (step -1) and BoxManager.move_right (step 1)
BoxManager_move(bm, step) ==
    IF bm.box_selected
    THEN IF BoxIndexError(bm) \/ OptionIndexError(bm.boxes[bm.selected_box_index + 1])
         THEN [bm EXCEPT !.raised = "IndexError"]
         ELSE IF step < 0
              THEN LET r == Box_move_option_left(bm.boxes[bm.selected_box_index + 1])
                   IN  [bm EXCEPT !.boxes[bm.selected_box_index + 1] = r.box,
                                  !.box_selected = r.ret]
              ELSE [bm EXCEPT !.boxes[bm.selected_box_index + 1] =
                                  Box_move_option_right(@)]
    ELSE LET moved == \A i \in 1..Len(bm.boxes) : ~bm.boxes[i].moving
         IN  [bm EXCEPT !.boxes = [i \in 1..Len(bm.boxes) |->
                                      [bm.boxes[i] EXCEPT !.moving = TRUE]],
                        !.selected_box_index =
                            IF moved THEN (@ + step) % bm.num_boxes ELSE @]

\* Box.select_option with BaseOptionBox.confirm
Box_select_option(bm) ==
    LET box == bm.boxes[bm.selected_box_index + 1]
        opt == box.options[box.option_index + 1]
    IN  [bm EXCEPT !.boxes[bm.selected_box_index + 1].options[box.option_index + 1]
                       .is_highlighted = ~@,
                   !.config[opt.path] = opt.value]

\* BoxManager.select_box: the manager and the value returned
BoxManager_select_box(bm) ==
    IF BoxIndexError(bm)
    THEN [bm |-> [bm EXCEPT !.raised = "IndexError"], box_name |-> "None"]
    ELSE IF bm.boxes[bm.selected_box_index + 1].name = "exit"
         THEN [bm |-> bm, box_name |-> "exit"]
         ELSE IF bm.box_selected
              THEN IF OptionIndexError(bm.boxes[bm.selected_box_index + 1])
                   THEN [bm |-> [bm EXCEPT !.raised = "IndexError"], box_name |-> "None"]
                   ELSE [bm |-> Box_select_option(bm), box_name |-> "None"]
              ELSE [bm |-> [bm EXCEPT !.box_selected = TRUE,
                                      !.boxes[bm.selected_box_index + 1].in_box = TRUE],
                    box_name |-> "None"]

\* SettingsScreen.on_screen_end: save_config(global_data.config)
SettingsScreen_on_screen_end(bm, next_screen) ==
    [bm EXCEPT !.saved = bm.config, !.ret = next_screen]

\* SettingsScreen.handle_input
SettingsScreen_handle_input(bm, input) ==
    CASE input = "l_kat" -> BoxManager_move(bm, 0 - 1)
      [] input = "r_kat" -> BoxManager_move(bm, 1)
      [] input = "don" ->
            LET selected == BoxManager_select_box(bm)
            IN  IF selected.box_name = "exit"
                THEN SettingsScreen_on_screen_end(selected.bm, "ENTRY")
                ELSE selected.bm
      [] OTHER -> bm

\* SettingsScreen.update
SettingsScreen_update(bm, finished, key, textkey, char, input) ==
    SettingsScreen_handle_input(BoxManager_update(bm, finished, key, textkey, char), input)

\* the values stay within the bounds of the model
SettingsWithin(bm) ==
    \A i \in 1..Len(bm.boxes) : \A j \in 1..Len(bm.boxes[i].options) :
        LET opt == bm.boxes[i].options[j]
        IN  /\ opt.type = "int" => (opt.value >= 0 - MaxValue /\ opt.value <= MaxValue)
            /\ Len(opt.string) <= MaxString

InitSettings ==
    /\ metadata = <<>>
    /\ notes = <<>>
    /\ current_ms = RInt(0)
    /\ frame = <<>>
    /\ pc = "idle"
    /\ bar_no = 0
    /\ results = <<>>
    /\ player = <<>>
    /\ last = <<>>
    /\ ms_from_start = RInt(0)
    /\ \E template \in Templates : screen = NewBoxManager(template)

\* an option of this type is highlighted: its update() reads the keyboard
Highlighted(bm, type) ==
    \E i \in 1..Len(bm.boxes) : \E j \in 1..Len(bm.boxes[i].options) :
        bm.boxes[i].options[j].type = type /\ bm.boxes[i].options[j].is_highlighted

\* one frame of the settings screen; an input that no update() of the frame
\* reads is left at rest
SettingsUpdate ==
    /\ screen.raised = ""
    /\ screen.ret = "None"
    /\ \E finished \in BOOLEAN : \E key \in {0} \cup KeyCodes :
          \E textkey \in {"none", "BACKSPACE", "ENTER"} : \E char \in BOOLEAN :
             \E input \in Inputs :
                LET updated == SettingsScreen_update(screen, finished, key,
                                                     textkey, char, input)
                IN  /\ finished => \E i \in 1..Len(screen.boxes) : screen.boxes[i].moving
                    /\ key > 0 => Highlighted(screen, "keybind")
                    /\ (textkey # "none" \/ char) => Highlighted(screen, "string")
                    /\ SettingsWithin(updated)
                    /\ screen' = updated
    /\ UNCHANGED <<metadata, notes, current_ms, frame, pc, bar_no, results, player,
                   last, ms_from_start>>

NextSettings == SettingsUpdate

SpecSettings == InitSettings /\ [][NextSettings]_vars

\* the box the cursor is on, where there is one
HasSelectedBox == screen.selected_box_index < screen.num_boxes
SelectedSettingsBox == screen.boxes[screen.selected_box_index + 1]

(***************************************************************************)
(* C37: selected_box_index is an index into boxes, 0 <= index < num_boxes, *)
(* at the start and after every move_left, move_right and select_box, for  *)
(* every template with at least one box.                                   *)
(***************************************************************************)
C37_SelectedBoxIndexValid ==
    0 <= screen.selected_box_index /\ screen.selected_box_index < screen.num_boxes

(***************************************************************************)
(* C36 as stated: box_selected is true exactly when the box the cursor is  *)
(* on has in_box, no other box has in_box, and every box's option_index is *)
(* an index into its options.  A box without options (the exit box) has    *)
(* option_index 0 and no option at index 0.                                *)
(***************************************************************************)
C36_AsStated ==
    /\ screen.box_selected <=> (HasSelectedBox /\ SelectedSettingsBox.in_box)
    /\ \A i \in 1..Len(screen.boxes) :
          (i # screen.selected_box_index + 1) => ~screen.boxes[i].in_box
    /\ \A i \in 1..Len(screen.boxes) :
          /\ 0 <= screen.boxes[i].option_index
          /\ screen.boxes[i].option_index < Len(screen.boxes[i].options)

(***************************************************************************)
(* C36: box_selected is true exactly when the box the cursor is on has     *)
(* in_box, no other box has in_box, and the option_index of every box that *)
(* has options is an index into them (a box without options keeps 0).      *)
(***************************************************************************)
C36_BoxSelected ==
    /\ screen.box_selected <=> (HasSelectedBox /\ SelectedSettingsBox.in_box)
    /\ \A i \in 1..Len(screen.boxes) :
          (i # screen.selected_box_index + 1) => ~screen.boxes[i].in_box
    /\ \A i \in 1..Len(screen.boxes) :
          IF screen.boxes[i].options = <<>>
          THEN screen.boxes[i].option_index = 0
          ELSE /\ 0 <= screen.boxes[i].option_index
               /\ screen.boxes[i].option_index < Len(screen.boxes[i].options)

\* the cursor went into a box and on to its second option, and came back out
\* of another box before
C36_Witness ==
    /\ screen.box_selected
    /\ HasSelectedBox
    /\ SelectedSettingsBox.in_box
    /\ SelectedSettingsBox.option_index = 1
    /\ \E i \in 1..Len(screen.boxes) :
          /\ i # screen.selected_box_index + 1
          /\ screen.boxes[i].options # <<>>
          /\ screen.boxes[i].options[1].value # DefaultValue(screen.boxes[i].options[1].type)

(***************************************************************************)
(* C38: whenever no option is highlighted, the entry of every option in    *)
(* global_data.config is the option's value, so that a captured key or an  *)
(* entered text is in the configuration on_screen_end saves.               *)
(***************************************************************************)
C38_ConfigHoldsValues ==
    (\A i \in 1..Len(screen.boxes) : \A j \in 1..Len(screen.boxes[i].options) :
        ~screen.boxes[i].options[j].is_highlighted)
    => \A i \in 1..Len(screen.boxes) : \A j \in 1..Len(screen.boxes[i].options) :
          screen.config[screen.boxes[i].options[j].path] = screen.boxes[i].options[j].value


(***************************************************************************)
(* scenes/ai_battle/song_select.py: the choice of the AI level.  The       *)
(* screen record holds the player's selected_difficulty, its               *)
(* SubdiffSelector (selector, <<>> for None), modifiers.subdiff and what   *)
(* handle_input_selected did last.  SongSelectPlayer (scenes/song_select   *)
(* .py) is not part of the sources at hand: its difficulty cursor is taken *)
(* to go one step left or right between -3 (back) and URA, a song with all *)
(* five courses.                                                           *)
(***************************************************************************)
levels ==
    <<<<1, 2, 3, 4>>, <<2, 3, 4, 5>>, <<6, 7, 8, 9>>,
      <<10, 11, 12, 13>>, <<10, 11, 12, 13>>>>

Difficulties == (0 - 3)..Difficulty.URA

\* self.levels[difficulty]: a negative index counts from the end of the list
levels_of(difficulty) ==
    IF difficulty < 0 THEN levels[Len(levels) + difficulty + 1] ELSE levels[difficulty + 1]
KatInputs == {"none", "l_kat", "r_kat"}

\* SubdiffSelector.__init__
NewSubdiffSelector ==
    [is_selected |-> FALSE, selected_index |-> 0, selected_level |-> 1]

\* SubdiffSelector.move_left(difficulty)
SubdiffSelector_move_left(sel, difficulty) ==
    LET index == Max(0, sel.selected_index - 1)
    IN  [sel EXCEPT !.selected_index = index,
                    !.selected_level = levels_of(difficulty)[index + 1]]

\* SubdiffSelector.move_right(difficulty)
SubdiffSelector_move_right(sel, difficulty) ==
    LET index == Min(3, sel.selected_index + 1)
    IN  [sel EXCEPT !.selected_index = index,
                    !.selected_level = levels_of(difficulty)[index + 1]]

\* SubdiffSelector.confirm
SubdiffSelector_confirm(scr) == [scr EXCEPT !.subdiff = scr.selector.selected_level]

\* SongSelectPlayer._navigate_difficulty_left / _navigate_difficulty_right
navigate_difficulty(scr, step) ==
    [scr EXCEPT !.selected_difficulty = Max(0 - 3, Min(Difficulty.URA, @ + step))]

\* AISongSelectPlayer.on_song_selected
on_song_selected(scr, difficulty) ==
    [scr EXCEPT !.selector = NewSubdiffSelector, !.selected_difficulty = difficulty,
                !.op = "on_song_selected"]

\* AISongSelectPlayer.handle_input_selected, the neiro and modifier
\* selectors closed
handle_input_selected(scr, kat, don) ==
    IF scr.selector # <<>> /\ scr.selector.is_selected
    THEN LET moved ==
                 IF kat = "l_kat"
                 THEN [scr EXCEPT !.selector =
                           SubdiffSelector_move_left(@, scr.selected_difficulty)]
                 ELSE IF kat = "r_kat"
                      THEN [scr EXCEPT !.selector =
                                SubdiffSelector_move_right(@, scr.selected_difficulty)]
                      ELSE scr
         IN  IF don
             THEN [SubdiffSelector_confirm(moved) EXCEPT !.op = "confirm"]
             ELSE [moved EXCEPT !.op = "None"]
    ELSE IF don /\ scr.selected_difficulty = 0 - 3
         THEN [scr EXCEPT !.selector = <<>>, !.op = "cancel"]
    ELSE IF don /\ scr.selected_difficulty < 0
         THEN [scr EXCEPT !.op = "None"]
    ELSE LET chosen ==
                 IF don /\ scr.selector # <<>>
                 THEN [scr EXCEPT !.selector.is_selected = TRUE]
                 ELSE scr
         IN  IF kat = "l_kat" THEN [navigate_difficulty(chosen, 0 - 1) EXCEPT !.op = "None"]
             ELSE IF kat = "r_kat"
                  THEN [navigate_difficulty(chosen, 1) EXCEPT !.op = "None"]
                  ELSE [chosen EXCEPT !.op = "None"]

\* AISongSelectScreen.on_screen_start (subdiff = 0) and a first song selected
InitSubdiff ==
    /\ metadata = <<>>
    /\ notes = <<>>
    /\ current_ms = RInt(0)
    /\ frame = <<>>
    /\ pc = "idle"
    /\ bar_no = 0
    /\ results = <<>>
    /\ player = <<>>
    /\ last = <<>>
    /\ ms_from_start = RInt(0)
    /\ \E difficulty \in Difficulties :
          screen = [selector |-> NewSubdiffSelector, selected_difficulty |-> difficulty,
                    subdiff |-> 0, op |-> "on_song_selected"]

\* a frame of the difficulty choice
SubdiffInput ==
    /\ screen.op \notin {"confirm", "cancel"}
    /\ \E kat \in KatInputs : \E don \in BOOLEAN :
          screen' = handle_input_selected(screen, kat, don)
    /\ UNCHANGED <<metadata, notes, current_ms, frame, pc, bar_no, results, player,
                   last, ms_from_start>>

\* back in the song list after a battle or a cancel, a song is selected again
SubdiffSongSelected ==
    /\ screen.op \in {"confirm", "cancel"}
    /\ \E difficulty \in Difficulties :
          screen' = on_song_selected(screen, difficulty)
    /\ UNCHANGED <<metadata, notes, current_ms, frame, pc, bar_no, results, player,
                   last, ms_from_start>>

NextSubdiff == SubdiffInput \/ SubdiffSongSelected

SpecSubdiff == InitSubdiff /\ [][NextSubdiff]_vars

(***************************************************************************)
(* C39: when confirm() has been called, modifiers.subdiff is               *)
(* levels[selected_difficulty][selected_index] for the difficulty selected *)
(* at that moment, whatever moves and difficulty changes came before; and  *)
(* selected_index is always within 0..3.                                   *)
(***************************************************************************)
C39_ConfirmedLevel ==
    /\ screen.selector # <<>> => screen.selector.selected_index \in 0..3
    /\ screen.op = "confirm" =>
          screen.subdiff =
              levels_of(screen.selected_difficulty)[screen.selector.selected_index + 1]

====
